---- MODULE Spec2Model ----
(***************************************************************************)
(* Kinetic Monte Carlo crystal growth on a cubic lattice.                  *)
(*                                                                         *)
(* Two programs of the repository are modelled:                            *)
(*   model_1_002  the ensemble program (Ensemble, Item, Frontier, SimLog)  *)
(*   model_1_001  the single-replica program (run_calculations,            *)
(*                sim_mode_1_1 .. sim_mode_2_3, SimulationState)           *)
(*                                                                         *)
(* Numbers.  The f64 particle counts are kept exactly, as integer          *)
(* multiples of 1/UNIT.  A concentration is kept as the fraction [n, d]    *)
(* the code divides, with the IEEE outcomes of a zero divisor.  Energies   *)
(* are integer multiples of the quantum k_T*ln(2), so that the driving     *)
(* force k_T*ln(conc/conc_eq) is kept as the ratio under the logarithm and *)
(* the sign of d_e is decided exactly by comparing that ratio with a power *)
(* of two.  A draw of the random number generator is a nondeterministic    *)
(* choice over the outcomes it can produce.                                *)
(***************************************************************************)
EXTENDS Integers, Sequences, FiniteSets, TLC

\* ------------------------------------------------------------------------
\* Bounds of the model
\* ------------------------------------------------------------------------
\* largest StepLim drawn for a run
MaxStepLim == 2

\* usize::MAX, the "no neighbour" sentinel of the neighbour table
NONE == -1

\* ------------------------------------------------------------------------
\* Helpers
\* ------------------------------------------------------------------------
\* the f64 value 1.0: the scalars n_tot, n_cryst, n_gas, conc, p_b are kept in
\* eighths, which holds every value the runs below produce exactly
UNIT == 8

RECURSIVE Pow2(_)
Pow2(k) == IF k <= 0 THEN 1 ELSE 2 * Pow2(k - 1)

RECURSIVE SumSeq(_)
SumSeq(s) == IF s = <<>> THEN 0 ELSE Head(s) + SumSeq(Tail(s))

Min2(a, b) == IF a <= b THEN a ELSE b

\* TRUE, once v has been evaluated: TLC evaluates the arguments of an operator
\* on demand, and a loop's accumulator left pending over the whole loop is
\* evaluated as one deeply nested expression
Evaluated(v) == v = v

\* ------------------------------------------------------------------------
\* lattice.rs : Grid
\* ------------------------------------------------------------------------
GridSize(g) == g.nx * g.ny * g.nz

Sites(g) == 0..(GridSize(g) - 1)

\* a linear index that strides x by size_xy instead of size_zy
xyz_to_idx_size_xy(g, x, y, z) == z + y * g.nz + x * (g.nx * g.ny)

xyz_to_idx(g, x, y, z) == z + y * g.nz + x * (g.nz * g.ny)

idx_to_xyz(g, idx) ==
  [x |-> idx \div (g.nz * g.ny), y |-> (idx \div g.nz) % g.ny, z |-> idx % g.nz]

\* a wrap by the truncated remainder: -1 stays -1, which the cast to usize
\* turns into usize::MAX
xyz_to_periodic_sub_rem(coord, dim, periodic) ==
  IF coord >= 0 /\ coord < dim THEN coord
  ELSE IF periodic THEN (IF coord >= 0 THEN coord % dim ELSE -((-coord) % dim))
  ELSE NONE

xyz_to_periodic_sub(coord, dim, periodic) ==
  IF coord >= 0 /\ coord < dim THEN coord
  ELSE IF periodic THEN coord % dim
  ELSE NONE

\* a row of the neighbour table in the order z-1, z+1, y-1, y+1, x-1, x+1
neibs_entry_z_first(g, idx) ==
  LET c == idx_to_xyz(g, idx)
      neighbors == << <<c.x, c.y, c.z - 1>>, <<c.x, c.y, c.z + 1>>,
                      <<c.x, c.y - 1, c.z>>, <<c.x, c.y + 1, c.z>>,
                      <<c.x - 1, c.y, c.z>>, <<c.x + 1, c.y, c.z>> >>
  IN [i \in 1..6 |->
        LET xpi == xyz_to_periodic_sub(neighbors[i][1], g.nx, g.px)
            ypi == xyz_to_periodic_sub(neighbors[i][2], g.ny, g.py)
            zpi == xyz_to_periodic_sub(neighbors[i][3], g.nz, g.pz)
        IN IF xpi # NONE /\ ypi # NONE /\ zpi # NONE
             THEN zpi + ypi * g.nz + xpi * (g.nz * g.ny)
             ELSE NONE]

\* the row of the neighbour table of site idx, order x-1, x+1, y-1, y+1, z-1, z+1
neibs_entry(g, idx) ==
  LET c == idx_to_xyz(g, idx)
      neighbors == << <<c.x - 1, c.y, c.z>>, <<c.x + 1, c.y, c.z>>,
                      <<c.x, c.y - 1, c.z>>, <<c.x, c.y + 1, c.z>>,
                      <<c.x, c.y, c.z - 1>>, <<c.x, c.y, c.z + 1>> >>
  IN [i \in 1..6 |->
        LET xpi == xyz_to_periodic_sub(neighbors[i][1], g.nx, g.px)
            ypi == xyz_to_periodic_sub(neighbors[i][2], g.ny, g.py)
            zpi == xyz_to_periodic_sub(neighbors[i][3], g.nz, g.pz)
        IN IF xpi # NONE /\ ypi # NONE /\ zpi # NONE
             THEN zpi + ypi * g.nz + xpi * (g.nz * g.ny)
             ELSE NONE]

precomp_neibs(g) == [idx \in Sites(g) |-> neibs_entry(g, idx)]

\* ------------------------------------------------------------------------
\* frontier.rs : Frontier  (tpas = GasAdj, tag 2; tpbs = CrystalAdj, tag 3)
\* Vec positions are 0-based in the code: tpas[idxl] is tpas[idxl + 1] here.
\* ------------------------------------------------------------------------
FrontierNew(total_grid_size) ==
  [tpas |-> <<>>, tpbs |-> <<>>,
   idxg_to_type |-> [i \in 0..(total_grid_size - 1) |-> 0],
   idxg_to_idxl |-> [i \in 0..(total_grid_size - 1) |-> 0],
   tpas_size |-> 0, tpbs_size |-> 0]

\* tpa_add without the early return on a site already tagged 2
tpa_add_always_pushes(f, idxg) ==
  [f EXCEPT !.idxg_to_idxl[idxg] = f.tpas_size,
            !.tpas = Append(f.tpas, idxg),
            !.idxg_to_type[idxg] = 2,
            !.tpas_size = f.tpas_size + 1]

tpa_add(f, idxg) ==
  IF f.idxg_to_type[idxg] = 2 THEN f
  ELSE [f EXCEPT !.idxg_to_idxl[idxg] = f.tpas_size,
                 !.tpas = Append(f.tpas, idxg),
                 !.idxg_to_type[idxg] = 2,
                 !.tpas_size = f.tpas_size + 1]

\* tpa_rem that forgets the reverse index of the member it moves into the hole
tpa_rem_stale_index(f, idxg) ==
  IF f.idxg_to_type[idxg] # 2 THEN f
  ELSE LET idxl == f.idxg_to_idxl[idxg]
           last_idxg == f.tpas[Len(f.tpas)]
           popped == SubSeq(f.tpas, 1, Len(f.tpas) - 1)
       IN [f EXCEPT !.tpas = IF idxl # f.tpas_size - 1
                                THEN [popped EXCEPT ![idxl + 1] = last_idxg]
                                ELSE popped,
                    !.idxg_to_type[idxg] = 0,
                    !.tpas_size = f.tpas_size - 1,
                    !.idxg_to_idxl[idxg] = 0]

tpa_rem(f, idxg) ==
  IF f.idxg_to_type[idxg] # 2 THEN f
  ELSE LET idxl == f.idxg_to_idxl[idxg]
           size == f.tpas_size - 1
           last_idxg == f.tpas[Len(f.tpas)]
           popped == SubSeq(f.tpas, 1, Len(f.tpas) - 1)
           moved == IF idxl # size
                      THEN [f EXCEPT !.tpas = [popped EXCEPT ![idxl + 1] = last_idxg],
                                     !.idxg_to_idxl[last_idxg] = idxl]
                      ELSE [f EXCEPT !.tpas = popped]
       IN [moved EXCEPT !.idxg_to_type[idxg] = 0,
                        !.tpas_size = size,
                        !.idxg_to_idxl[idxg] = 0]

tpb_add(f, idxg) ==
  IF f.idxg_to_type[idxg] = 3 THEN f
  ELSE [f EXCEPT !.idxg_to_idxl[idxg] = f.tpbs_size,
                 !.tpbs = Append(f.tpbs, idxg),
                 !.idxg_to_type[idxg] = 3,
                 !.tpbs_size = f.tpbs_size + 1]

\* tpb_rem that leaves the reverse index of the removed site as it was
tpb_rem_keeps_index(f, idxg) ==
  IF f.idxg_to_type[idxg] # 3 THEN f
  ELSE LET idxl == f.idxg_to_idxl[idxg]
           size == f.tpbs_size - 1
           last_idxg == f.tpbs[Len(f.tpbs)]
           popped == SubSeq(f.tpbs, 1, Len(f.tpbs) - 1)
           moved == IF idxl # size
                      THEN [f EXCEPT !.tpbs = [popped EXCEPT ![idxl + 1] = last_idxg],
                                     !.idxg_to_idxl[last_idxg] = idxl]
                      ELSE [f EXCEPT !.tpbs = popped]
       IN [moved EXCEPT !.idxg_to_type[idxg] = 0,
                        !.tpbs_size = size]

tpb_rem(f, idxg) ==
  IF f.idxg_to_type[idxg] # 3 THEN f
  ELSE LET idxl == f.idxg_to_idxl[idxg]
           size == f.tpbs_size - 1
           last_idxg == f.tpbs[Len(f.tpbs)]
           popped == SubSeq(f.tpbs, 1, Len(f.tpbs) - 1)
           moved == IF idxl # size
                      THEN [f EXCEPT !.tpbs = [popped EXCEPT ![idxl + 1] = last_idxg],
                                     !.idxg_to_idxl[last_idxg] = idxl]
                      ELSE [f EXCEPT !.tpbs = popped]
       IN [moved EXCEPT !.idxg_to_type[idxg] = 0,
                        !.tpbs_size = size,
                        !.idxg_to_idxl[idxg] = 0]

\* ------------------------------------------------------------------------
\* utils.rs : rebuild_front, compute_neighbor_sums
\* ------------------------------------------------------------------------
\* the inner loop of rebuild_front over the neighbours k..6 of crystal site i
RECURSIVE rebuild_neibs(_, _, _, _, _)
rebuild_neibs(states, nb, i, k, acc) ==
  IF k > 6 \/ ~Evaluated(acc) THEN acc
  ELSE LET neib_idx == nb[i][k]
       IN IF neib_idx # NONE /\ states[neib_idx] = 0
            THEN rebuild_neibs(states, nb, i, k + 1,
                               [front |-> tpa_add(acc.front, neib_idx),
                                has_vacancy_neighbor |-> TRUE])
            ELSE rebuild_neibs(states, nb, i, k + 1, acc)

\* the outer loop of rebuild_front over the sites i..n-1, in the order of the
\* loop: the lower half of the range, then the upper half
RECURSIVE rebuild_sites(_, _, _, _, _)
rebuild_sites(states, nb, i, n, acc) ==
  IF i >= n \/ ~Evaluated(acc) THEN acc
  ELSE IF n - i > 1
    THEN rebuild_sites(states, nb, (i + n) \div 2, n,
                       rebuild_sites(states, nb, i, (i + n) \div 2, acc))
  ELSE IF states[i] = 1
    THEN LET r == rebuild_neibs(states, nb, i, 1,
                                [front |-> acc.front, has_vacancy_neighbor |-> FALSE])
             f2 == IF r.has_vacancy_neighbor THEN tpb_add(r.front, i) ELSE r.front
         IN [front |-> f2, cluster_size |-> acc.cluster_size + 1]
    ELSE acc

\* a rebuild_front that counts only the crystal sites it stores in tpbs
rebuild_front_counts_stored(states, nb, front) ==
  LET r == rebuild_sites(states, nb, 0, Cardinality(DOMAIN states),
                         [front |-> front, cluster_size |-> 0])
  IN [r EXCEPT !.cluster_size = r.front.tpbs_size]

\* rebuild_front(states, neibs, front): the frontier it leaves and the count it returns
rebuild_front(states, nb, front) ==
  rebuild_sites(states, nb, 0, Cardinality(DOMAIN states),
                [front |-> front, cluster_size |-> 0])

\* (x_axis_neighbors, y_axis_neighbors, z_axis_neighbors) of a neighbour row
compute_neighbor_sums(states, idxg_nis) ==
  LET one(i) == IF idxg_nis[i] # NONE /\ states[idxg_nis[i]] = 1 THEN 1 ELSE 0
  IN <<one(1) + one(2), one(3) + one(4), one(5) + one(6)>>

\* ------------------------------------------------------------------------
\* f64 arithmetic of the scalars
\* ------------------------------------------------------------------------
\* a * b of two f64 values kept in 1/UNIT
Mul(a, b) == (a * b) \div UNIT

\* the quotient n / d of two f64 values, kept unevaluated
Frac(n, d) == [n |-> n, d |-> d]

\* conc < 0.0 : -x/0 is -inf, 0/0 is NaN (not < 0), x/0 is +inf
IsNegative(c) ==
  IF c.d = 0 THEN c.n < 0
  ELSE (c.n < 0 /\ c.d > 0) \/ (c.n > 0 /\ c.d < 0)

Abs(x) == IF x < 0 THEN -x ELSE x

\* k_t * (conc / conc_eq).ln(), conc_eq > 0 : the ratio under the logarithm.
\* ln of a negative number, of -inf or of NaN is NaN; ln(0) = ln(-0) = -inf;
\* ln(+inf) = +inf.
LnRatio(c, conc_eq) ==
  IF c.d = 0
    THEN IF c.n > 0 THEN [cls |-> "pinf", n |-> 0, d |-> 0]
         ELSE [cls |-> "nan", n |-> 0, d |-> 0]
  ELSE IF c.n = 0 THEN [cls |-> "ninf", n |-> 0, d |-> 0]
  ELSE IF IsNegative(c) THEN [cls |-> "nan", n |-> 0, d |-> 0]
  ELSE [cls |-> "fin", n |-> Abs(c.n) * UNIT, d |-> Abs(c.d) * conc_eq]

\* a configured driving force dg = g quanta, as k_t * ln(2^g)
DgOfQuanta(g) ==
  IF g >= 0 THEN [cls |-> "fin", n |-> Pow2(g), d |-> 1]
  ELSE [cls |-> "fin", n |-> 1, d |-> Pow2(-g)]

\* the sign of surf_en_change alone
DeClass_without_dg(s, dg, sign) ==
  IF s < 0 THEN "neg" ELSE IF s = 0 THEN "zero" ELSE "pos"

\* the sign of d_e = surf_en_change - sign*dg, surf_en_change = s quanta:
\* "neg", "zero", "pos" (finite), "pinf", "ninf" or "nan"
DeClass(s, dg, sign) ==
  IF dg.cls = "nan" THEN "nan"
  ELSE IF dg.cls = "pinf" THEN (IF sign = 1 THEN "ninf" ELSE "pinf")
  ELSE IF dg.cls = "ninf" THEN (IF sign = 1 THEN "pinf" ELSE "ninf")
  ELSE LET \* attachment: 2^s ? n/d ; detachment: 2^s * n/d ? 1
           lhs == IF sign = 1 THEN Pow2(s) * dg.d ELSE Pow2(s) * dg.n
           rhs == IF sign = 1 THEN Pow2(-s) * dg.n ELSE Pow2(-s) * dg.d
       IN IF lhs < rhs THEN "neg" ELSE IF lhs = rhs THEN "zero" ELSE "pos"

\* the values of  d_e < 0.0 || (-d_e / k_t).exp() > rng.random::<f64>()
\* over the draws of [0, 1): exp(-d_e/k_t) >= 1 accepts on every draw, a value
\* in (0, 1) accepts on some draws, 0 and NaN accept on none
MetropolisOutcomes(de) ==
  IF de \in {"neg", "zero", "ninf"} THEN {TRUE}
  ELSE IF de = "pos" THEN {TRUE, FALSE}
  ELSE {FALSE}

\* the values of  p > rng.random::<f64>()  for a probability p in 1/UNIT
DrawOutcomes(p) ==
  IF p <= 0 THEN {FALSE} ELSE IF p >= UNIT THEN {TRUE} ELSE {TRUE, FALSE}

\* ------------------------------------------------------------------------
\* state.rs : SimLog
\* ------------------------------------------------------------------------
SimLogNew ==
  [p_b |-> 0, p_pow |-> 0, conc_eq |-> 0, conc |-> Frac(0, UNIT), conc_neg_count |-> 0,
   n_tot |-> 0, n_cryst |-> 0, n_gas |-> 0, dg |-> DgOfQuanta(0), tot_denergy |-> 0,
   cryst_sx |-> 0, cryst_sy |-> 0, cryst_sz |-> 0, mk_step |-> 0,
   log_points |-> 0, flushed |-> 0]

initialize(sl, sim_mode, dg0, conc_eq, conc0, n_tot, n_cryst0, p_b, p_pow) ==
  LET base == [sl EXCEPT !.p_b = p_b, !.p_pow = p_pow, !.conc_eq = conc_eq,
                         !.conc = Frac(conc0, UNIT), !.n_tot = n_tot,
                         !.n_cryst = n_cryst0, !.dg = DgOfQuanta(dg0)]
  IN IF sim_mode >= 21
       THEN [base EXCEPT !.n_gas = Mul(conc0, n_tot - n_cryst0),
                         !.dg = LnRatio(Frac(conc0, UNIT), conc_eq)]
       ELSE base

\* update_n_sizes that leaves n_gas alone
update_n_sizes_crystal_only(sl, dn_cryst) ==
  [sl EXCEPT !.n_cryst = sl.n_cryst + dn_cryst]

update_n_sizes(sl, dn_cryst) ==
  [sl EXCEPT !.n_cryst = sl.n_cryst + dn_cryst, !.n_gas = sl.n_gas - dn_cryst]

update_conc(sl) ==
  LET c == Frac(sl.n_gas, sl.n_tot - sl.n_cryst)
  IN [sl EXCEPT !.conc = c,
                !.conc_neg_count = IF IsNegative(c) THEN @ + 1 ELSE @]

update_dg(sl) == [sl EXCEPT !.dg = LnRatio(sl.conc, sl.conc_eq)]

update_conc_and_dg(sl) == update_dg(update_conc(sl))

add_denergy(sl, tot_denergy) == [sl EXCEPT !.tot_denergy = sl.tot_denergy + tot_denergy]

\* a measurement that only ever widens the extents it has stored
measure_cryst_sizes_widening(sl, g, front) ==
  LET members == {front.tpbs[k] : k \in 1..Min2(front.tpbs_size, Len(front.tpbs))}
      cx == Cardinality({idx_to_xyz(g, m).x : m \in members})
      cy == Cardinality({idx_to_xyz(g, m).y : m \in members})
      cz == Cardinality({idx_to_xyz(g, m).z : m \in members})
  IN [sl EXCEPT !.cryst_sx = IF cx > @ THEN cx ELSE @,
                !.cryst_sy = IF cy > @ THEN cy ELSE @,
                !.cryst_sz = IF cz > @ THEN cz ELSE @]

measure_cryst_sizes(sl, g, front) ==
  IF front.tpbs_size = 0
    THEN [sl EXCEPT !.cryst_sx = 0, !.cryst_sy = 0, !.cryst_sz = 0]
    ELSE LET members == {front.tpbs[k] : k \in 1..Min2(front.tpbs_size, Len(front.tpbs))}
         IN [sl EXCEPT !.cryst_sx = Cardinality({idx_to_xyz(g, m).x : m \in members}),
                       !.cryst_sy = Cardinality({idx_to_xyz(g, m).y : m \in members}),
                       !.cryst_sz = Cardinality({idx_to_xyz(g, m).z : m \in members})]

add_log_point(sl) == [sl EXCEPT !.log_points = sl.log_points + 1]

write_log_to_file(sl) == [sl EXCEPT !.flushed = sl.flushed + 1]

\* ------------------------------------------------------------------------
\* item.rs : Item, the per-replica kernels mode_2_1_step .. mode_2_3_step
\* ------------------------------------------------------------------------
\* stalled is the status line the replica has printed: "no" (none), "front"
\* (found an empty Front) or "boundary" (sample boundary cell found in neighbors)
ItemNew(item_gid, size) ==
  [item_gid |-> item_gid, is_alive |-> TRUE,
   state |-> [i \in 0..(size - 1) |-> 0],
   front |-> FrontierNew(size), simlog |-> SimLogNew, snapshots |-> 0,
   stalled |-> "no"]

\* a test that never finds the frontier empty
is_front_empty_never(item) == FALSE

is_front_empty(item) == item.front.tpas_size = 0 \/ item.front.tpbs_size = 0

handle_stalled_front(item, step_id) ==
  [item EXCEPT !.simlog.mk_step = step_id, !.stalled = "front", !.is_alive = FALSE]

handle_stalled_boundary(item, step_id) ==
  [item EXCEPT !.simlog.mk_step = step_id, !.stalled = "boundary", !.is_alive = FALSE]

\* write one snapshot line, measure the crystal, push a log point
write_action(item, g) ==
  [item EXCEPT !.snapshots = item.snapshots + 1,
               !.simlog = add_log_point(measure_cryst_sizes(item.simlog, g, item.front))]

\* an attachment energy that takes the quantum of x for z and of z for x
SurfAttach_axes_swapped(sm, e2) ==
  SumSeq([a \in 1..3 |-> IF sm[a] = 0 THEN e2[4 - a] ELSE IF sm[a] = 2 THEN -e2[4 - a] ELSE 0])

\* surf_en_change of an attachment, in quanta: +E for an axis with no crystal
\* neighbour, -E for an axis with two
SurfAttach(sm, e2) ==
  SumSeq([a \in 1..3 |-> IF sm[a] = 0 THEN e2[a] ELSE IF sm[a] = 2 THEN -e2[a] ELSE 0])

\* surf_en_change of a detachment, in quanta
SurfDetach(sm, e2) ==
  SumSeq([a \in 1..3 |-> IF sm[a] = 0 THEN -e2[a] ELSE IF sm[a] = 2 THEN e2[a] ELSE 0])

HasNeib(state, nb, n, phase) == \E k \in 1..6 : nb[n][k] # NONE /\ state[nb[n][k]] = phase

\* the neighbour loop of the attachment patch, neighbours k..6
RECURSIVE attach_neibs(_, _, _, _, _)
attach_neibs(state, nb, idxg_nis, k, front) ==
  IF k > 6 \/ ~Evaluated(front) THEN front
  ELSE LET neib_idx == idxg_nis[k]
       IN IF neib_idx = NONE THEN attach_neibs(state, nb, idxg_nis, k + 1, front)
          ELSE IF state[neib_idx] = 0
            THEN attach_neibs(state, nb, idxg_nis, k + 1, tpa_add(front, neib_idx))
          ELSE IF ~HasNeib(state, nb, neib_idx, 0)
            THEN attach_neibs(state, nb, idxg_nis, k + 1, tpb_rem(front, neib_idx))
          ELSE attach_neibs(state, nb, idxg_nis, k + 1, front)

\* the neighbour loop of the detachment patch, neighbours k..6
RECURSIVE detach_neibs(_, _, _, _, _)
detach_neibs(state, nb, idxg_nis, k, front) ==
  IF k > 6 \/ ~Evaluated(front) THEN front
  ELSE LET neib_idx == idxg_nis[k]
       IN IF neib_idx = NONE THEN detach_neibs(state, nb, idxg_nis, k + 1, front)
          ELSE IF state[neib_idx] = 1
            THEN detach_neibs(state, nb, idxg_nis, k + 1, tpb_add(front, neib_idx))
          ELSE IF ~HasNeib(state, nb, neib_idx, 1)
            THEN detach_neibs(state, nb, idxg_nis, k + 1, tpa_rem(front, neib_idx))
          ELSE detach_neibs(state, nb, idxg_nis, k + 1, front)

\* a boundary test that looks at the two x neighbours only
has_invalid_neib_x_only(idxg_nis) == \E k \in 1..2 : idxg_nis[k] = NONE

has_invalid_neib(idxg_nis) == \E k \in 1..6 : idxg_nis[k] = NONE

\* the attached site enters CrystalAdj whatever its neighbours are
attach_adds_tpb_always(sm) == TRUE

\* is the freshly attached site added to CrystalAdj
attach_adds_tpb(sm) == (sm[1] + sm[2] + sm[3]) < 6

\* is the freshly detached site added to GasAdj
detach_adds_tpa(sm) == (sm[1] + sm[2] + sm[3]) > 0

\* the stall checks that end an accepted event
stall_checks(item, idxg_nis, step_id) ==
  IF has_invalid_neib(idxg_nis) THEN handle_stalled_boundary(item, step_id)
  ELSE IF is_front_empty(item) THEN handle_stalled_front(item, step_id)
  ELSE item

\* the body of an accepted attachment of site idxg
attach_accepted(item, nb, idxg, surf_en_change, step_id) ==
  LET idxg_nis == nb[idxg]
      sm == compute_neighbor_sums(item.state, idxg_nis)
      sl == add_denergy(update_conc(update_n_sizes(item.simlog, UNIT)), surf_en_change)
      state1 == [item.state EXCEPT ![idxg] = 1]
      f1 == tpa_rem(item.front, idxg)
      f2 == IF attach_adds_tpb(sm) THEN tpb_add(f1, idxg) ELSE f1
      f3 == attach_neibs(state1, nb, idxg_nis, 1, f2)
  IN stall_checks([item EXCEPT !.simlog = sl, !.state = state1, !.front = f3],
                  idxg_nis, step_id)

\* a detachment that patches the frontier and leaves the phase array alone
detach_accepted_phase_kept(item, nb, idxg, surf_en_change, step_id) ==
  LET idxg_nis == nb[idxg]
      sl == add_denergy(update_conc(update_n_sizes(item.simlog, -UNIT)), surf_en_change)
      f1 == tpa_add(tpb_rem(item.front, idxg), idxg)
  IN stall_checks([item EXCEPT !.simlog = sl, !.front = f1], idxg_nis, step_id)

\* the body of an accepted thermal or ballistic detachment of site idxg
detach_accepted(item, nb, idxg, surf_en_change, step_id) ==
  LET idxg_nis == nb[idxg]
      sm == compute_neighbor_sums(item.state, idxg_nis)
      sl == add_denergy(update_conc(update_n_sizes(item.simlog, -UNIT)), surf_en_change)
      state1 == [item.state EXCEPT ![idxg] = 0]
      f1 == tpb_rem(item.front, idxg)
      f2 == IF detach_adds_tpa(sm) THEN tpa_add(f1, idxg) ELSE f1
      f3 == detach_neibs(state1, nb, idxg_nis, 1, f2)
  IN stall_checks([item EXCEPT !.simlog = sl, !.state = state1, !.front = f3],
                  idxg_nis, step_id)

\* the base 1 - surf_en_change / eisol of the ballistic probability of mode 2.3,
\* as the fraction (eisol - surf_en_change) / eisol
BallisticBase(surf_en_change, e2) ==
  Frac(e2[1] + e2[2] + e2[3] - surf_en_change, e2[1] + e2[2] + e2[3])

RECURSIVE IPow(_, _)
IPow(b, p) == IF p <= 0 THEN 1 ELSE b * IPow(b, p - 1)

\* the values of  prob > rng.random::<f64>()  in mode_2_3_step for an integer
\* p_pow >= 0: prob = p_b * base.powf(p_pow) = (p_b * n^p_pow) / (d^p_pow), d > 0
Ballistic3Outcomes(p_b, p_pow, base) ==
  LET num == p_b * IPow(base.n, p_pow)
      den == UNIT * IPow(base.d, p_pow)
  IN IF num <= 0 THEN {FALSE} ELSE IF num >= den THEN {TRUE} ELSE {TRUE, FALSE}

\* ------------------------------------------------------------------------
\* model_1_001 simulation.rs : SimulationState
\* ------------------------------------------------------------------------
SimulationStateNew(ballistics_probability, eq_concentration, concentration, n_total, n_crystal_init) ==
  [eq_concentration |-> eq_concentration,
   concentration |-> Frac(concentration, UNIT),
   concentration_negative_counter |-> 0,
   n_total |-> n_total,
   n_crystal |-> n_crystal_init,
   n_gas |-> Mul(concentration, n_total - n_crystal_init),
   delta_gibbs |-> LnRatio(Frac(concentration, UNIT), eq_concentration),
   ballistics_probability |-> ballistics_probability,
   total_energy_change |-> 0,
   crystal_sx |-> -1, crystal_sy |-> -1, crystal_sz |-> -1,
   mk_step |-> 0, history |-> 0]

\* an update that counts a negative concentration and returns TRUE without
\* reverting n_crystal and n_gas
update_without_rollback(ss, particle_change) ==
  LET n_crystal == ss.n_crystal + particle_change
      n_gas == ss.n_gas - particle_change
      concentration == Frac(n_gas, ss.n_total - n_crystal)
  IN IF IsNegative(concentration)
       THEN [sim_state |-> [ss EXCEPT !.concentration_negative_counter = @ + 1,
                                      !.n_crystal = n_crystal, !.n_gas = n_gas],
             not_accepted |-> TRUE]
       ELSE [sim_state |-> [ss EXCEPT !.n_crystal = n_crystal, !.n_gas = n_gas,
                                      !.concentration = concentration,
                                      !.delta_gibbs =
                                        LnRatio(concentration, ss.eq_concentration)],
             not_accepted |-> FALSE]

\* SimulationState::update: the state it leaves and the flag it returns; a
\* negative concentration is counted, the change reverted and TRUE returned
update(ss, particle_change) ==
  LET n_crystal == ss.n_crystal + particle_change
      n_gas == ss.n_gas - particle_change
      concentration == Frac(n_gas, ss.n_total - n_crystal)
  IN IF IsNegative(concentration)
       THEN [sim_state |-> [ss EXCEPT !.concentration_negative_counter = @ + 1],
             not_accepted |-> TRUE]
       ELSE [sim_state |-> [ss EXCEPT !.n_crystal = n_crystal, !.n_gas = n_gas,
                                      !.concentration = concentration,
                                      !.delta_gibbs =
                                        LnRatio(concentration, ss.eq_concentration)],
             not_accepted |-> FALSE]

calculate_energy_change(ss, energy_change) ==
  [ss EXCEPT !.total_energy_change = ss.total_energy_change + energy_change]

\* the bounding span of the CrystalAdj members along an axis
Span(coords) ==
  (CHOOSE hi \in coords : \A c \in coords : c <= hi)
    - (CHOOSE lo \in coords : \A c \in coords : lo <= c) + 1

measure_crystal_sizes(ss, g, f) ==
  IF f.tpbs_size = 0
    THEN [ss EXCEPT !.crystal_sx = 0, !.crystal_sy = 0, !.crystal_sz = 0]
    ELSE LET members == {f.tpbs[k] : k \in 1..f.tpbs_size}
         IN [ss EXCEPT !.crystal_sx = Span({idx_to_xyz(g, m).x : m \in members}),
                       !.crystal_sy = Span({idx_to_xyz(g, m).y : m \in members}),
                       !.crystal_sz = Span({idx_to_xyz(g, m).z : m \in members})]

add_history_point(ss) == [ss EXCEPT !.history = ss.history + 1]

\* the frontier patch of an accepted attachment in the kernels sim_mode_*: the
\* attached site always enters CrystalAdj
sim_attach(states, nb, f, idxg) ==
  LET states1 == [states EXCEPT ![idxg] = 1]
      f1 == tpb_add(tpa_rem(f, idxg), idxg)
  IN [states |-> states1, front |-> attach_neibs(states1, nb, nb[idxg], 1, f1)]

\* a detachment patch that leaves the neighbours of the site alone
sim_detach_site_only(states, nb, f, idxg) ==
  [states |-> [states EXCEPT ![idxg] = 0], front |-> tpa_add(tpb_rem(f, idxg), idxg)]

\* the frontier patch of an accepted detachment in the kernels sim_mode_*: the
\* detached site always enters GasAdj
sim_detach(states, nb, f, idxg) ==
  LET states1 == [states EXCEPT ![idxg] = 0]
      f1 == tpa_add(tpb_rem(f, idxg), idxg)
  IN [states |-> states1, front |-> detach_neibs(states1, nb, nb[idxg], 1, f1)]

\* a check that breaks the loop on an empty frontier vector only
sim_stalled_front_only(f, idxg_nis) == Min2(f.tpas_size, f.tpbs_size) = 0

\* the checks that break the simulation loop after an accepted event
sim_stalled(f, idxg_nis) ==
  has_invalid_neib(idxg_nis) \/ Min2(f.tpas_size, f.tpbs_size) = 0

\* the status line an accepted event prints before it breaks the loop:
\* "boundary" (sample boundary cell found in neighbors), "front" (found an
\* empty Front), or "no" when the loop goes on
sim_status(f, idxg_nis) ==
  IF has_invalid_neib(idxg_nis) THEN "boundary"
  ELSE IF Min2(f.tpas_size, f.tpbs_size) = 0 THEN "front"
  ELSE "no"

\* ------------------------------------------------------------------------
\* State
\* ------------------------------------------------------------------------
VARIABLES
  cfg,         \* Settings, as loaded and validated
  neibs,       \* Grid.neibs, the neighbour table built by Grid::new
  ev,          \* the sub-event the last action evaluated (observation only)
  \* the ensemble program (model_1_002)
  items,       \* Ensemble.items, the live replicas in creation order
  simlog,      \* Ensemble.simlog, the aggregate SimLog
  run,         \* position of run_simulation: pc, step_id, the replica being stepped
               \* (item_lid, 1-based), n_cryst_ensemble; and for observation n_before,
               \* the n_cryst of every live replica when the global step began, and
               \* n_cryst0, n_gas0, the ensemble's scalars after initialisation, and
               \* finalized, for every replica created (by item_gid + 1) the number of
               \* times the ensemble finalised it (final snapshot and log flush)
  \* the single-replica program (model_1_001)
  grid_states, \* Grid.states, the phase array
  front,       \* the Frontier
  sim_state,   \* the SimulationState
  sim,         \* position of the kernel sim_mode_*: pc, step_id; states_written,
               \* the states written to the output; stalled, the status line printed
               \* when the loop was left early
  \* the lattice by itself (lattice.rs)
  call         \* the last call of a Grid function: fn, and its arguments and
               \* result among idx and xyz

ensemble_vars == <<items, simlog, run>>
single_vars == <<grid_states, front, sim_state, sim>>
vars == <<cfg, neibs, ev, ensemble_vars, single_vars, call>>

\* no Grid function has been called on its own
NoCall == [fn |-> "none", idx |-> 0, xyz |-> [x |-> 0, y |-> 0, z |-> 0]]

NoEvent == [kind |-> "none", item_gid |-> 0, idxg |-> 0, accepted |-> FALSE]

\* an event record that leaves out the sampled site
Event_without_site(kind, item, idxg, accepted) ==
  [kind |-> kind, item_gid |-> item.item_gid, idxg |-> 0, accepted |-> accepted]

Event(kind, item, idxg, accepted) ==
  [kind |-> kind, item_gid |-> item.item_gid, idxg |-> idxg, accepted |-> accepted]

\* ------------------------------------------------------------------------
\* Inputs of the ensemble program
\* ------------------------------------------------------------------------
Grid(nx, ny, nz, px, py, pz) ==
  [nx |-> nx, ny |-> ny, nz |-> nz, px |-> px, py |-> py, pz |-> pz]

\* a non-periodic line (every site touches a face), a line periodic in y and z
\* with faces in x (site 1 touches no face), a fully periodic cube (no site is
\* its own neighbour)
GridLine == Grid(3, 1, 1, FALSE, FALSE, FALSE)
GridSlab == Grid(3, 1, 1, FALSE, TRUE, TRUE)
GridCube == Grid(2, 2, 2, TRUE, TRUE, TRUE)

PhaseArrays(g) == [Sites(g) -> {0, 1}]

CrystalCount(state) == Cardinality({i \in DOMAIN state : state[i] = 1})

\* the state lines a single-replica run loads: every line of the small grids; on
\* the cube the lines whose crystal sites (or whose gas sites) are none, one
\* corner, the opposite corner, both, or the two opposite corners 1 and N-2
InitLines(g) ==
  IF GridSize(g) <= 4 THEN PhaseArrays(g)
  ELSE {st \in PhaseArrays(g) :
          \E c \in (SUBSET {0, GridSize(g) - 1}) \cup {{1, GridSize(g) - 2}}, v \in {0, 1} :
            \A j \in Sites(g) : st[j] = v <=> j \in c}

\* the state lines an ensemble run loads: every line of the small grids; on the
\* cube, whose sites are all alike, the lines whose crystal sites (or whose gas
\* sites) are none, one corner, the opposite corner, or both
EnsembleLines(g) ==
  IF GridSize(g) <= 4 THEN PhaseArrays(g)
  ELSE {st \in PhaseArrays(g) :
          \E c \in SUBSET {0, GridSize(g) - 1}, v \in {0, 1} :
            \A j \in Sites(g) : st[j] = v <=> j \in c}

\* the numbers of lines loaded for a grid
ItemCounts(g) == IF g = GridSlab THEN {1, 2} ELSE {1}

\* (AddI, RemI) : no thermal event, attachments only, detachments only, both
Schedules == {<<0, 0>>, <<1, 0>>, <<0, 1>>, <<1, 1>>}

\* Settings of a run: the energy quanta Ex2 = Ey2 = Ez2 are one quantum,
\* C0 = C_eq = 1/4, N_tot = 8, N0_cr negative (count the loaded state) or 6,
\* p_b = 1/2 in the ballistic modes, WriteI = 2
Settings(grid, mode, sched, n0_cr) ==
  [grid |-> grid, mode |-> mode, e2 |-> <<1, 1, 1>>, dg |-> 0,
   c_eq |-> UNIT \div 4, c0 |-> UNIT \div 4, n_tot |-> 8 * UNIT, n0_cr |-> n0_cr,
   p_b |-> IF mode \in {12, 13, 22, 23} THEN UNIT \div 2 ELSE 0, p_pow |-> 1,
   add_i |-> sched[1], add_from |-> 1, rem_i |-> sched[2], rem_from |-> 1,
   write_i |-> 2, step_lim |-> MaxStepLim]

\* the runs of the ensemble program: every mode and schedule on the two
\* three-site grids; on the cube every schedule in mode 2.1 and at most one
\* thermal event per step in the ballistic modes
EnsembleSchedules(g, m) ==
  IF g = GridCube /\ m # 21 THEN Schedules \ {<<1, 1>>} ELSE Schedules

EnsembleConfigs ==
  UNION {{Settings(g, m, s, -UNIT) : s \in EnsembleSchedules(g, m)} :
           g \in {GridLine, GridSlab, GridCube}, m \in {21, 22, 23}}
  \cup {Settings(GridSlab, 11, <<1, 1>>, -UNIT)}
  \cup {Settings(GridSlab, 21, s, 6 * UNIT) : s \in Schedules}

\* ------------------------------------------------------------------------
\* ensemble.rs : Ensemble::new (initialization_stage1, initialization_stage2)
\* ------------------------------------------------------------------------
\* stage 1: one Item per loaded line, holding a copy of the line
stage1_items(c, lines) ==
  [k \in 1..Len(lines) |->
     [ItemNew(k - 1, GridSize(c.grid)) EXCEPT !.state = lines[k]]]

\* stage 2, first loop: rebuild the frontier, choose n_cryst0, initialise the SimLog
stage2_item(c, nb, item, items_len0) ==
  LET rb == rebuild_front(item.state, nb, item.front)
      n0_cr_calculated == rb.cluster_size * UNIT
      n_cryst0 == IF c.n0_cr < 0 THEN n0_cr_calculated ELSE c.n0_cr
  IN [item EXCEPT !.front = rb.front,
                  !.simlog = initialize(item.simlog, c.mode, c.dg, c.c_eq, c.c0,
                                        c.n_tot \div items_len0, n_cryst0, c.p_b, c.p_pow)]

\* stage 2, the ensemble SimLog: n0_cr_ensemble is the sum of the n_cryst0
stage2_simlog(c, its) ==
  add_log_point(
    initialize(SimLogNew, c.mode, c.dg, c.c_eq, c.c0, c.n_tot,
               SumSeq([k \in 1..Len(its) |-> its[k].simlog.n_cryst]), c.p_b, c.p_pow))

\* stage 2, second loop: broadcast dg, write the first snapshot
stage2_broadcast(c, item, ens_simlog) ==
  write_action([item EXCEPT !.simlog.dg = ens_simlog.dg], c.grid)

EnsembleInit ==
  /\ cfg \in EnsembleConfigs
  /\ neibs = precomp_neibs(cfg.grid)
  /\ \E items_len0 \in ItemCounts(cfg.grid) :
       \E lines \in [1..items_len0 -> EnsembleLines(cfg.grid)] :
         LET its == [k \in 1..items_len0 |->
                       stage2_item(cfg, neibs, stage1_items(cfg, lines)[k], items_len0)]
             ens == stage2_simlog(cfg, its)
         IN /\ simlog = ens
            /\ items = [k \in 1..items_len0 |-> stage2_broadcast(cfg, its[k], ens)]
  /\ run = [pc |-> "loop", step_id |-> 0, item_lid |-> 0, n_cryst_ensemble |-> 0,
            n_before |-> <<>>, n_cryst0 |-> simlog.n_cryst, n_gas0 |-> simlog.n_gas,
            finalized |-> [k \in 1..Len(items) |-> 0]]
  /\ ev = NoEvent
  /\ grid_states = <<>>
  /\ front = FrontierNew(0)
  /\ sim_state = SimulationStateNew(0, 0, 0, 0, 0)
  /\ sim = [pc |-> "off", step_id |-> 0, states_written |-> 0, stalled |-> "no"]
  /\ call = NoCall

\* ------------------------------------------------------------------------
\* ensemble.rs : Ensemble::run_simulation, with the kernels of item.rs
\* ------------------------------------------------------------------------
is_add_step == cfg.add_i > 0 /\ run.step_id >= cfg.add_from /\ run.step_id % cfg.add_i = 0
is_rem_step == cfg.rem_i > 0 /\ run.step_id >= cfg.rem_from /\ run.step_id % cfg.rem_i = 0
is_write_step == cfg.write_i > 0 /\ run.step_id % cfg.write_i = 0

Cur == items[run.item_lid]

\* for step_id in 1..=cfg.step_lim, in the arms 2.1 | 2.2 | 2.3
StepBegin ==
  /\ run.pc = "loop"
  /\ cfg.mode \in {21, 22, 23}
  /\ run.step_id < cfg.step_lim
  /\ run' = [run EXCEPT !.pc = "add", !.step_id = run.step_id + 1, !.item_lid = 1,
                        !.n_cryst_ensemble = 0,
                        !.n_before = [k \in 1..Len(items) |-> items[k].simlog.n_cryst]]
  /\ ev' = NoEvent
  /\ UNCHANGED <<single_vars, call, cfg, neibs, items, simlog>>

\* rng.random_range(0..0) panics: the process aborts
Panic(kind) ==
  /\ run' = [run EXCEPT !.pc = "panic"]
  /\ ev' = Event(kind, Cur, 0, FALSE)
  /\ UNCHANGED <<single_vars, call, cfg, neibs, items, simlog>>

\* a kernel that goes on to its next sub-event whatever became of the replica
AfterEvent_goes_on(item, next) == run' = [run EXCEPT !.pc = next]

\* the kernel goes on to its next sub-event, or returns dead
AfterEvent(item, next) ==
  run' = [run EXCEPT !.pc = IF item.is_alive THEN next ELSE "ret"]

\* if is_add_step { ... } : not an add step
AddSkip ==
  /\ run.pc = "add"
  /\ ~is_add_step
  /\ run' = [run EXCEPT !.pc = "rem"]
  /\ ev' = NoEvent
  /\ UNCHANGED <<single_vars, call, cfg, neibs, items, simlog>>

AddPanic ==
  /\ run.pc = "add"
  /\ is_add_step
  /\ Cur.front.tpas_size = 0
  /\ Panic("add")

\* the attachment proposal is drawn and rejected
AddReject ==
  /\ run.pc = "add"
  /\ is_add_step
  /\ \E idxl \in 0..(Cur.front.tpas_size - 1) :
       LET idxg == Cur.front.tpas[idxl + 1]
           sm == compute_neighbor_sums(Cur.state, neibs[idxg])
           surf_en_change == SurfAttach(sm, cfg.e2)
       IN /\ FALSE \in MetropolisOutcomes(DeClass(surf_en_change, Cur.simlog.dg, 1))
          /\ ev' = Event("add", Cur, idxg, FALSE)
  /\ run' = [run EXCEPT !.pc = "rem"]
  /\ UNCHANGED <<single_vars, call, cfg, neibs, items, simlog>>

\* the attachment proposal is drawn and accepted
AddAccept ==
  /\ run.pc = "add"
  /\ is_add_step
  /\ \E idxl \in 0..(Cur.front.tpas_size - 1) :
       LET idxg == Cur.front.tpas[idxl + 1]
           sm == compute_neighbor_sums(Cur.state, neibs[idxg])
           surf_en_change == SurfAttach(sm, cfg.e2)
           item == attach_accepted(Cur, neibs, idxg, surf_en_change, run.step_id)
       IN /\ TRUE \in MetropolisOutcomes(DeClass(surf_en_change, Cur.simlog.dg, 1))
          /\ items' = [items EXCEPT ![run.item_lid] = item]
          /\ AfterEvent(item, "rem")
          /\ ev' = Event("add", Cur, idxg, TRUE)
  /\ UNCHANGED <<single_vars, call, cfg, neibs, simlog>>

\* if is_rem_step { ... } : not a rem step
RemSkip ==
  /\ run.pc = "rem"
  /\ ~is_rem_step
  /\ run' = [run EXCEPT !.pc = "bal"]
  /\ ev' = NoEvent
  /\ UNCHANGED <<single_vars, call, cfg, neibs, items, simlog>>

RemPanic ==
  /\ run.pc = "rem"
  /\ is_rem_step
  /\ Cur.front.tpbs_size = 0
  /\ Panic("rem")

\* the thermal detachment proposal is drawn and rejected
RemReject ==
  /\ run.pc = "rem"
  /\ is_rem_step
  /\ \E idxl \in 0..(Cur.front.tpbs_size - 1) :
       LET idxg == Cur.front.tpbs[idxl + 1]
           sm == compute_neighbor_sums(Cur.state, neibs[idxg])
           surf_en_change == SurfDetach(sm, cfg.e2)
       IN /\ FALSE \in MetropolisOutcomes(DeClass(surf_en_change, Cur.simlog.dg, -1))
          /\ ev' = Event("rem", Cur, idxg, FALSE)
  /\ run' = [run EXCEPT !.pc = "bal"]
  /\ UNCHANGED <<single_vars, call, cfg, neibs, items, simlog>>

\* the thermal detachment proposal is drawn and accepted
RemAccept ==
  /\ run.pc = "rem"
  /\ is_rem_step
  /\ \E idxl \in 0..(Cur.front.tpbs_size - 1) :
       LET idxg == Cur.front.tpbs[idxl + 1]
           sm == compute_neighbor_sums(Cur.state, neibs[idxg])
           surf_en_change == SurfDetach(sm, cfg.e2)
           item == detach_accepted(Cur, neibs, idxg, surf_en_change, run.step_id)
       IN /\ TRUE \in MetropolisOutcomes(DeClass(surf_en_change, Cur.simlog.dg, -1))
          /\ items' = [items EXCEPT ![run.item_lid] = item]
          /\ AfterEvent(item, "bal")
          /\ ev' = Event("rem", Cur, idxg, TRUE)
  /\ UNCHANGED <<single_vars, call, cfg, neibs, simlog>>

\* does the kernel of this mode reach the ballistic sample: mode_2_1_step has no
\* ballistic block, mode_2_2_step enters it when p_b > random, mode_2_3_step always
BallisticGate ==
  IF cfg.mode = 22 THEN DrawOutcomes(Cur.simlog.p_b)
  ELSE IF cfg.mode = 23 THEN {TRUE}
  ELSE {FALSE}

\* the values of the acceptance of the sampled ballistic detachment
BallisticOutcomes(surf_en_change) ==
  IF cfg.mode = 23
    THEN Ballistic3Outcomes(Cur.simlog.p_b, Cur.simlog.p_pow,
                            BallisticBase(surf_en_change, cfg.e2))
    ELSE {TRUE}

\* no ballistic sub-event in this kernel call
BalSkip ==
  /\ run.pc = "bal"
  /\ FALSE \in BallisticGate
  /\ run' = [run EXCEPT !.pc = "ret"]
  /\ ev' = NoEvent
  /\ UNCHANGED <<single_vars, call, cfg, neibs, items, simlog>>

BalPanic ==
  /\ run.pc = "bal"
  /\ TRUE \in BallisticGate
  /\ Cur.front.tpbs_size = 0
  /\ Panic("bal")

\* mode_2_3_step: the ballistic proposal is drawn and rejected
BalReject ==
  /\ run.pc = "bal"
  /\ TRUE \in BallisticGate
  /\ \E idxl \in 0..(Cur.front.tpbs_size - 1) :
       LET idxg == Cur.front.tpbs[idxl + 1]
           sm == compute_neighbor_sums(Cur.state, neibs[idxg])
           surf_en_change == SurfDetach(sm, cfg.e2)
       IN /\ FALSE \in BallisticOutcomes(surf_en_change)
          /\ ev' = Event("bal", Cur, idxg, FALSE)
  /\ run' = [run EXCEPT !.pc = "ret"]
  /\ UNCHANGED <<single_vars, call, cfg, neibs, items, simlog>>

\* the ballistic detachment happens
BalAccept ==
  /\ run.pc = "bal"
  /\ TRUE \in BallisticGate
  /\ \E idxl \in 0..(Cur.front.tpbs_size - 1) :
       LET idxg == Cur.front.tpbs[idxl + 1]
           sm == compute_neighbor_sums(Cur.state, neibs[idxg])
           surf_en_change == SurfDetach(sm, cfg.e2)
           item == detach_accepted(Cur, neibs, idxg, surf_en_change, run.step_id)
       IN /\ TRUE \in BallisticOutcomes(surf_en_change)
          /\ items' = [items EXCEPT ![run.item_lid] = item]
          /\ AfterEvent(item, "ret")
          /\ ev' = Event("bal", Cur, idxg, TRUE)
  /\ UNCHANGED <<single_vars, call, cfg, neibs, simlog>>

\* the end of the kernel call of an alive replica (mk_step, the periodic
\* snapshot) and the arm `true` of the ensemble's match
kernel_tail(item) ==
  LET it == [item EXCEPT !.simlog.mk_step = run.step_id]
  IN IF is_write_step THEN write_action(it, cfg.grid) ELSE it

\* the arm `false` of the ensemble's match: final snapshot and log flush
finalize_item(item) ==
  LET it == write_action(item, cfg.grid)
  IN [it EXCEPT !.simlog = write_log_to_file(it.simlog)]

\* the kernel call returns to the loop over the replicas
KernelReturn ==
  /\ run.pc = "ret"
  /\ LET item == IF Cur.is_alive THEN kernel_tail(Cur) ELSE finalize_item(Cur)
     IN /\ items' = [items EXCEPT ![run.item_lid] = item]
        /\ run' = [run EXCEPT
                     !.n_cryst_ensemble = IF item.is_alive THEN @ + item.simlog.n_cryst ELSE @,
                     !.finalized = IF item.is_alive THEN @
                                   ELSE [@ EXCEPT ![item.item_gid + 1] =
                                                    run.finalized[item.item_gid + 1] + 1],
                     !.item_lid = IF run.item_lid < Len(items) THEN @ + 1 ELSE @,
                     !.pc = IF run.item_lid < Len(items) THEN "add" ELSE "agg"]
  /\ ev' = NoEvent
  /\ UNCHANGED <<single_vars, call, cfg, neibs, simlog>>

\* a retain that keeps every replica in the list
retain_everyone(its) == its

\* self.items.retain(|item| item.is_alive)
retain_alive(its) == SelectSeq(its, LAMBDA it : it.is_alive)

\* a broadcast that leaves every replica the dg it had
broadcast_dg_skipped(its, dg) == its

\* for item in self.items.iter_mut() { item.simlog.dg.val = self.simlog.dg.val }
broadcast_dg(its, dg) == [k \in 1..Len(its) |-> [its[k] EXCEPT !.simlog.dg = dg]]

\* an aggregation that adds the live sum instead of the difference to it
aggregate_simlog_adds_sum(sl, n_cryst_ensemble) ==
  update_conc_and_dg(update_n_sizes(sl, n_cryst_ensemble))

\* the ensemble SimLog after the replicas have stepped
aggregate_simlog(sl, n_cryst_ensemble) ==
  update_conc_and_dg(update_n_sizes(sl, n_cryst_ensemble - sl.n_cryst))

\* an aggregation that leaves the loop without storing the step
Aggregate_without_mk_step ==
  /\ run.pc = "agg"
  /\ LET alive == retain_alive(items)
         sl == aggregate_simlog(simlog, run.n_cryst_ensemble)
     IN IF Len(alive) = 0
          THEN /\ items' = alive
               /\ simlog' = add_log_point(sl)
               /\ run' = [run EXCEPT !.pc = "post"]
          ELSE /\ items' = broadcast_dg(alive, sl.dg)
               /\ simlog' = IF is_write_step
                              THEN add_log_point([sl EXCEPT !.mk_step = run.step_id])
                              ELSE sl
               /\ run' = [run EXCEPT !.pc = "loop"]
  /\ ev' = NoEvent
  /\ UNCHANGED <<single_vars, call, cfg, neibs>>

\* the end of a global step: retain, aggregate, break or broadcast, log
Aggregate ==
  /\ run.pc = "agg"
  /\ LET alive == retain_alive(items)
         sl == aggregate_simlog(simlog, run.n_cryst_ensemble)
     IN IF Len(alive) = 0
          THEN /\ items' = alive
               /\ simlog' = add_log_point([sl EXCEPT !.mk_step = run.step_id])
               /\ run' = [run EXCEPT !.pc = "post"]
          ELSE /\ items' = broadcast_dg(alive, sl.dg)
               /\ simlog' = IF is_write_step
                              THEN add_log_point([sl EXCEPT !.mk_step = run.step_id])
                              ELSE sl
               /\ run' = [run EXCEPT !.pc = "loop"]
  /\ ev' = NoEvent
  /\ UNCHANGED <<single_vars, call, cfg, neibs>>

\* after the loop: finalise the replicas still alive, flush the ensemble log
finalize_remaining(item, sl) ==
  LET it == write_action([item EXCEPT !.simlog.dg = sl.dg], cfg.grid)
  IN [it EXCEPT !.simlog = write_log_to_file(it.simlog)]

Finish ==
  /\ \/ run.pc = "post"
     \/ run.pc = "loop" /\ (run.step_id >= cfg.step_lim \/ cfg.mode \notin {21, 22, 23})
  /\ items' = [k \in 1..Len(items) |-> finalize_remaining(items[k], simlog)]
  /\ simlog' = write_log_to_file(simlog)
  /\ run' = [run EXCEPT
               !.pc = "done",
               !.finalized = [g \in 1..Len(run.finalized) |->
                                IF \E k \in 1..Len(items) : items[k].item_gid + 1 = g
                                  THEN run.finalized[g] + 1 ELSE run.finalized[g]]]
  /\ ev' = NoEvent
  /\ UNCHANGED <<single_vars, call, cfg, neibs>>

EnsembleNext ==
  \/ StepBegin
  \/ AddSkip \/ AddPanic \/ AddReject \/ AddAccept
  \/ RemSkip \/ RemPanic \/ RemReject \/ RemAccept
  \/ BalSkip \/ BalPanic \/ BalReject \/ BalAccept
  \/ KernelReturn
  \/ Aggregate
  \/ Finish

SpecEnsemble == EnsembleInit /\ [][EnsembleNext]_vars

\* ------------------------------------------------------------------------
\* ensemble.rs : run_simulation as a sequential loop that always goes on
\* ------------------------------------------------------------------------
\* the runs of the fair specification: the slab; the kernel with the most
\* ballistic outcomes with no thermal event or both, the kernel with none
\* with every schedule but attachments alone
FairConfigs ==
  {Settings(GridSlab, 23, s, -UNIT) : s \in {<<0, 0>>, <<1, 1>>}}
  \cup {Settings(GridSlab, 21, s, -UNIT) : s \in {<<0, 0>>, <<0, 1>>, <<1, 1>>}}

\* the lines loaded in them: all gas, the crystal on the inner site, the
\* crystal on the inner site and a face
FairLines ==
  {st \in PhaseArrays(GridSlab) :
     \E c \in {{}, {1}, {0, 1}} : \A j \in Sites(GridSlab) : st[j] = 1 <=> j \in c}

FairInit ==
  /\ EnsembleInit
  /\ cfg \in FairConfigs
  /\ \A k \in 1..Len(items) : items[k].state \in FairLines

\* run_simulation is one thread: whenever it has a next statement it executes it
SpecEnsembleFair == FairInit /\ [][EnsembleNext]_vars /\ WF_vars(EnsembleNext)

\* ------------------------------------------------------------------------
\* ensemble.rs : the runs with three different energy quanta
\* ------------------------------------------------------------------------
\* a periodic bar in which a site has two different neighbours along x and one
\* neighbour twice along y and along z
GridBar == Grid(3, 2, 2, TRUE, TRUE, TRUE)

\* Ex2 = 1, Ey2 = 2, Ez2 = 4: every schedule on the line, whose sites all
\* touch a face, attachments and detachments together on the cube (with and
\* without the ballistic event) and on the bar (without it)
EnergyConfigs ==
  {[c EXCEPT !.e2 = <<1, 2, 4>>] :
     c \in {Settings(GridLine, m, s, -UNIT) : m \in {21, 23}, s \in Schedules}
            \cup {Settings(GridCube, m, <<1, 1>>, -UNIT) : m \in {21, 23}}
            \cup {Settings(GridBar, 21, <<1, 1>>, -UNIT)}}

\* the lines loaded in them: every line of the line; on the cube and the bar
\* one crystal site, two crystal sites next to each other along z or along x
EnergyLines(g) ==
  IF g = GridLine THEN PhaseArrays(g)
  ELSE {st \in PhaseArrays(g) :
          \E c \in {{0}, {0, 1}, {0, g.nz * g.ny}} :
            \A j \in Sites(g) : st[j] = 1 <=> j \in c}

EnergyInit ==
  /\ cfg \in EnergyConfigs
  /\ neibs = precomp_neibs(cfg.grid)
  /\ \E line \in EnergyLines(cfg.grid) :
       LET it == stage2_item(cfg, neibs, stage1_items(cfg, <<line>>)[1], 1)
           ens == stage2_simlog(cfg, <<it>>)
       IN /\ simlog = ens
          /\ items = <<stage2_broadcast(cfg, it, ens)>>
  /\ run = [pc |-> "loop", step_id |-> 0, item_lid |-> 0, n_cryst_ensemble |-> 0,
            n_before |-> <<>>, n_cryst0 |-> simlog.n_cryst, n_gas0 |-> simlog.n_gas,
            finalized |-> <<0>>]
  /\ ev = NoEvent
  /\ grid_states = <<>>
  /\ front = FrontierNew(0)
  /\ sim_state = SimulationStateNew(0, 0, 0, 0, 0)
  /\ sim = [pc |-> "off", step_id |-> 0, states_written |-> 0, stalled |-> "no"]
  /\ call = NoCall

SpecEnergy == EnergyInit /\ [][EnsembleNext]_vars

\* ------------------------------------------------------------------------
\* model_1_001 main.rs, simulation.rs : run_calculations up to the kernel
\* (Grid and Frontier of this program are the ones of lattice.rs, frontier.rs)
\* ------------------------------------------------------------------------
\* the runs of the single-replica program: the six modes on the slab and the
\* cube, N0_cr not positive (count the loaded state), and the reservoir modes
\* with N0_cr = 10 > N_tot; on the cube every schedule in the modes 1.1 and 2.1
\* and at most one thermal event per step in the ballistic modes
SingleSchedules(g, m) ==
  IF g = GridCube /\ m \notin {11, 21} THEN Schedules \ {<<1, 1>>} ELSE Schedules

SingleConfigs ==
  UNION {{Settings(g, m, s, -UNIT) : s \in SingleSchedules(g, m)} :
           g \in {GridSlab, GridCube}, m \in {11, 12, 13, 21, 22, 23}}
  \cup UNION {{Settings(GridCube, m, s, 10 * UNIT) : s \in SingleSchedules(GridCube, m)} :
                m \in {21, 22, 23}}

\* grid.states[center_id] = 1
activate_center(g, states) ==
  [states EXCEPT ![xyz_to_idx(g, g.nx \div 2, g.ny \div 2, g.nz \div 2)] = 1]

\* the SimulationState the kernel starts from: SimulationState::new, the first
\* history point, and the kernel's first statement in the modes 1.x
\* (sim_state.delta_gibbs = cfg.dg)
sim_state_init(c, f, n_cr_calculated) ==
  LET n_cr == IF c.n0_cr <= 0 THEN n_cr_calculated ELSE c.n0_cr
      ss == add_history_point(
              measure_crystal_sizes(
                SimulationStateNew(c.p_b, c.c_eq, c.c0, c.n_tot, n_cr), c.grid, f))
  IN IF c.mode < 21 THEN [ss EXCEPT !.delta_gibbs = DgOfQuanta(c.dg)] ELSE ss

\* the run of settings c from a loaded state line (all gas when nothing is
\* loaded): its centre made crystal, the frontier rebuilt, the first state written
SingleStart(c, line) ==
  /\ cfg = c
  /\ neibs = precomp_neibs(cfg.grid)
  /\ LET states == activate_center(cfg.grid, line)
         rb == rebuild_front(states, neibs, FrontierNew(GridSize(cfg.grid)))
     IN /\ grid_states = states
        /\ front = rb.front
        /\ sim_state = sim_state_init(cfg, rb.front, rb.cluster_size * UNIT)
  /\ sim = [pc |-> "loop", step_id |-> 0, states_written |-> 1, stalled |-> "no"]
  /\ ev = NoEvent
  /\ items = <<>>
  /\ simlog = SimLogNew
  /\ run = [pc |-> "off", step_id |-> 0, item_lid |-> 0, n_cryst_ensemble |-> 0,
            n_before |-> <<>>, n_cryst0 |-> 0, n_gas0 |-> 0, finalized |-> <<>>]
  /\ call = NoCall

SingleInit ==
  \E c \in SingleConfigs : \E line \in InitLines(c.grid) : SingleStart(c, line)

\* ------------------------------------------------------------------------
\* model_1_001 main.rs : load_state, then run_calculations up to the kernel
\* ------------------------------------------------------------------------
\* main with LoadPrev != 0 after load_state: grid.states holds the loaded line
LoadInit ==
  /\ cfg \in SingleConfigs
  /\ neibs = precomp_neibs(cfg.grid)
  /\ grid_states \in InitLines(cfg.grid)
  /\ call = [fn |-> "load_state", line |-> grid_states, first_state |-> <<>>]
  /\ front = FrontierNew(GridSize(cfg.grid))
  /\ sim_state = SimulationStateNew(0, 0, 0, 0, 0)
  /\ sim = [pc |-> "off", step_id |-> 0, states_written |-> 0, stalled |-> "no"]
  /\ ev = NoEvent
  /\ items = <<>>
  /\ simlog = SimLogNew
  /\ run = [pc |-> "off", step_id |-> 0, item_lid |-> 0, n_cryst_ensemble |-> 0,
            n_before |-> <<>>, n_cryst0 |-> 0, n_gas0 |-> 0, finalized |-> <<>>]

\* run_calculations up to the kernel: activate_center, rebuild_front, the
\* first write_state, SimulationState::new
StartFromLoaded ==
  /\ call.fn = "load_state"
  /\ LET states == activate_center(cfg.grid, grid_states)
         rb == rebuild_front(states, neibs, front)
     IN /\ grid_states' = states
        /\ front' = rb.front
        /\ sim_state' = sim_state_init(cfg, rb.front, rb.cluster_size * UNIT)
        /\ call' = [call EXCEPT !.fn = "run_calculations", !.first_state = states]
  /\ sim' = [pc |-> "loop", step_id |-> 0, states_written |-> 1, stalled |-> "no"]
  /\ UNCHANGED <<ensemble_vars, cfg, neibs, ev>>

LoadNext == StartFromLoaded

SpecLoad == LoadInit /\ [][LoadNext]_vars

\* ------------------------------------------------------------------------
\* model_1_001 simulation.rs : the kernels sim_mode_1_1 .. sim_mode_2_3
\* ------------------------------------------------------------------------
\* an add step test without add_check_part and the interval
sim_is_add_step_unscheduled == sim.step_id >= cfg.add_from

sim_is_add_step ==
  cfg.add_i > 0 /\ sim.step_id >= cfg.add_from /\ sim.step_id % cfg.add_i = 0
sim_is_rem_step ==
  cfg.rem_i > 0 /\ sim.step_id >= cfg.rem_from /\ sim.step_id % cfg.rem_i = 0
should_perform_action(step_id, interval, pre_flag) == pre_flag /\ step_id % interval = 0

SimEvent(kind, idxg, accepted) ==
  [kind |-> kind, item_gid |-> 0, idxg |-> idxg, accepted |-> accepted]

\* the reservoir modes 2.x call sim_state.update before an event is applied
Reservoir == cfg.mode >= 21

\* 'simulation_loop: for step_id in 1..=cfg.step_lim
SimStepBegin ==
  /\ sim.pc = "loop"
  /\ sim.step_id < cfg.step_lim
  /\ sim' = [sim EXCEPT !.pc = "add", !.step_id = sim.step_id + 1]
  /\ ev' = NoEvent
  /\ UNCHANGED <<ensemble_vars, call, cfg, neibs, grid_states, front, sim_state>>

\* rng.random_range(0..0) panics
SimPanic(kind) ==
  /\ sim' = [sim EXCEPT !.pc = "panic"]
  /\ ev' = SimEvent(kind, 0, FALSE)
  /\ UNCHANGED <<ensemble_vars, call, cfg, neibs, grid_states, front, sim_state>>

\* a sub-event that changes nothing goes on to the next position
SimPass(next, event) ==
  /\ sim' = [sim EXCEPT !.pc = next]
  /\ ev' = event
  /\ UNCHANGED <<ensemble_vars, call, cfg, neibs, grid_states, front, sim_state>>

\* sim_state.update returned not_accepted: continue 'simulation_loop
SimRefused(kind, idxg, particle_change) ==
  /\ Reservoir
  /\ update(sim_state, particle_change).not_accepted
  /\ sim_state' = update(sim_state, particle_change).sim_state
  /\ sim' = [sim EXCEPT !.pc = "loop"]
  /\ ev' = SimEvent(kind, idxg, FALSE)
  /\ UNCHANGED <<ensemble_vars, call, cfg, neibs, grid_states, front>>

\* an accepted event: the scalars, the phase flip, the frontier patch, and the
\* break out of the loop on a boundary neighbour or an empty frontier vector
SimApply(kind, idxg, particle_change, surf_en_change, patch, next) ==
  /\ ~Reservoir \/ ~update(sim_state, particle_change).not_accepted
  /\ LET ss == IF Reservoir THEN update(sim_state, particle_change).sim_state
               ELSE sim_state
         stalled == sim_stalled(patch.front, neibs[idxg])
     IN /\ sim_state' = [calculate_energy_change(ss, surf_en_change)
                           EXCEPT !.mk_step = IF stalled THEN sim.step_id ELSE @]
        /\ sim' = [sim EXCEPT !.pc = IF stalled THEN "post" ELSE next,
                              !.stalled = sim_status(patch.front, neibs[idxg])]
  /\ grid_states' = patch.states
  /\ front' = patch.front
  /\ ev' = SimEvent(kind, idxg, TRUE)
  /\ UNCHANGED <<ensemble_vars, call, cfg, neibs>>

\* if is_add_step { ... } : not an add step
SimAddSkip ==
  /\ sim.pc = "add"
  /\ ~sim_is_add_step
  /\ SimPass("rem", NoEvent)

SimAddPanic ==
  /\ sim.pc = "add"
  /\ sim_is_add_step
  /\ front.tpas_size = 0
  /\ SimPanic("add")

\* the attachment proposal is drawn and fails the Metropolis test
SimAddReject ==
  /\ sim.pc = "add"
  /\ sim_is_add_step
  /\ \E idxl \in 0..(front.tpas_size - 1) :
       LET idxg == front.tpas[idxl + 1]
           sm == compute_neighbor_sums(grid_states, neibs[idxg])
       IN /\ FALSE \in MetropolisOutcomes(
                         DeClass(SurfAttach(sm, cfg.e2), sim_state.delta_gibbs, 1))
          /\ SimPass("rem", SimEvent("add", idxg, FALSE))

\* the attachment passes the Metropolis test and the reservoir refuses it
SimAddRefused ==
  /\ sim.pc = "add"
  /\ sim_is_add_step
  /\ \E idxl \in 0..(front.tpas_size - 1) :
       LET idxg == front.tpas[idxl + 1]
           sm == compute_neighbor_sums(grid_states, neibs[idxg])
       IN /\ TRUE \in MetropolisOutcomes(
                        DeClass(SurfAttach(sm, cfg.e2), sim_state.delta_gibbs, 1))
          /\ SimRefused("add", idxg, UNIT)

\* the attachment happens
SimAddAccept ==
  /\ sim.pc = "add"
  /\ sim_is_add_step
  /\ \E idxl \in 0..(front.tpas_size - 1) :
       LET idxg == front.tpas[idxl + 1]
           sm == compute_neighbor_sums(grid_states, neibs[idxg])
           surf_en_change == SurfAttach(sm, cfg.e2)
       IN /\ TRUE \in MetropolisOutcomes(DeClass(surf_en_change, sim_state.delta_gibbs, 1))
          /\ SimApply("add", idxg, UNIT, surf_en_change,
                      sim_attach(grid_states, neibs, front, idxg), "rem")

\* if is_rem_step { ... } : not a rem step
SimRemSkip ==
  /\ sim.pc = "rem"
  /\ ~sim_is_rem_step
  /\ SimPass("bal", NoEvent)

SimRemPanic ==
  /\ sim.pc = "rem"
  /\ sim_is_rem_step
  /\ front.tpbs_size = 0
  /\ SimPanic("rem")

\* the thermal detachment proposal is drawn and fails the Metropolis test
SimRemReject ==
  /\ sim.pc = "rem"
  /\ sim_is_rem_step
  /\ \E idxl \in 0..(front.tpbs_size - 1) :
       LET idxg == front.tpbs[idxl + 1]
           sm == compute_neighbor_sums(grid_states, neibs[idxg])
       IN /\ FALSE \in MetropolisOutcomes(
                         DeClass(SurfDetach(sm, cfg.e2), sim_state.delta_gibbs, -1))
          /\ SimPass("bal", SimEvent("rem", idxg, FALSE))

\* the thermal detachment passes the Metropolis test and the reservoir refuses it
SimRemRefused ==
  /\ sim.pc = "rem"
  /\ sim_is_rem_step
  /\ \E idxl \in 0..(front.tpbs_size - 1) :
       LET idxg == front.tpbs[idxl + 1]
           sm == compute_neighbor_sums(grid_states, neibs[idxg])
       IN /\ TRUE \in MetropolisOutcomes(
                        DeClass(SurfDetach(sm, cfg.e2), sim_state.delta_gibbs, -1))
          /\ SimRefused("rem", idxg, -UNIT)

\* the thermal detachment happens
SimRemAccept ==
  /\ sim.pc = "rem"
  /\ sim_is_rem_step
  /\ \E idxl \in 0..(front.tpbs_size - 1) :
       LET idxg == front.tpbs[idxl + 1]
           sm == compute_neighbor_sums(grid_states, neibs[idxg])
           surf_en_change == SurfDetach(sm, cfg.e2)
       IN /\ TRUE \in MetropolisOutcomes(DeClass(surf_en_change, sim_state.delta_gibbs, -1))
          /\ SimApply("rem", idxg, -UNIT, surf_en_change,
                      sim_detach(grid_states, neibs, front, idxg), "bal")

\* does the kernel of this mode reach the ballistic block: sim_mode_1_1 and
\* sim_mode_2_1 have none, sim_mode_1_2 and sim_mode_2_2 enter it when
\* ballistics_probability > random, sim_mode_1_3 and sim_mode_2_3 always
SimBallisticGate ==
  IF cfg.mode \in {12, 22} THEN DrawOutcomes(sim_state.ballistics_probability)
  ELSE IF cfg.mode \in {13, 23} THEN {TRUE}
  ELSE {FALSE}

\* the values of the acceptance of the sampled ballistic detachment
SimBallisticOutcomes(surf_en_change) ==
  IF cfg.mode \in {13, 23}
    THEN Ballistic3Outcomes(sim_state.ballistics_probability, cfg.p_pow,
                            BallisticBase(surf_en_change, cfg.e2))
    ELSE {TRUE}

\* no ballistic sub-event in this step
SimBalSkip ==
  /\ sim.pc = "bal"
  /\ FALSE \in SimBallisticGate
  /\ SimPass("tail", NoEvent)

\* sim_mode_2_2, sim_mode_1_3, sim_mode_2_3: CrystalAdj is empty, the loop ends
SimBalEmpty ==
  /\ sim.pc = "bal"
  /\ TRUE \in SimBallisticGate
  /\ cfg.mode \in {22, 13, 23}
  /\ front.tpbs_size = 0
  /\ sim_state' = [sim_state EXCEPT !.mk_step = sim.step_id]
  /\ sim' = [sim EXCEPT !.pc = "post", !.stalled = "front"]
  /\ ev' = NoEvent
  /\ UNCHANGED <<ensemble_vars, call, cfg, neibs, grid_states, front>>

\* sim_mode_1_2 samples CrystalAdj without looking at its size
SimBalPanic ==
  /\ sim.pc = "bal"
  /\ TRUE \in SimBallisticGate
  /\ cfg.mode = 12
  /\ front.tpbs_size = 0
  /\ SimPanic("bal")

\* sim_mode_1_3, sim_mode_2_3: the ballistic proposal is drawn and rejected
SimBalReject ==
  /\ sim.pc = "bal"
  /\ TRUE \in SimBallisticGate
  /\ \E idxl \in 0..(front.tpbs_size - 1) :
       LET idxg == front.tpbs[idxl + 1]
           sm == compute_neighbor_sums(grid_states, neibs[idxg])
       IN /\ FALSE \in SimBallisticOutcomes(SurfDetach(sm, cfg.e2))
          /\ SimPass("tail", SimEvent("bal", idxg, FALSE))

\* the reservoir refuses the ballistic detachment: sim_mode_2_2 asks it before
\* the site is sampled, sim_mode_2_3 after the proposal has been accepted
SimBalRefused ==
  /\ sim.pc = "bal"
  /\ TRUE \in SimBallisticGate
  /\ front.tpbs_size > 0
  /\ IF cfg.mode = 22
       THEN SimRefused("bal", 0, -UNIT)
       ELSE \E idxl \in 0..(front.tpbs_size - 1) :
              LET idxg == front.tpbs[idxl + 1]
                  sm == compute_neighbor_sums(grid_states, neibs[idxg])
              IN /\ TRUE \in SimBallisticOutcomes(SurfDetach(sm, cfg.e2))
                 /\ SimRefused("bal", idxg, -UNIT)

\* the ballistic detachment happens
SimBalAccept ==
  /\ sim.pc = "bal"
  /\ TRUE \in SimBallisticGate
  /\ \E idxl \in 0..(front.tpbs_size - 1) :
       LET idxg == front.tpbs[idxl + 1]
           sm == compute_neighbor_sums(grid_states, neibs[idxg])
           surf_en_change == SurfDetach(sm, cfg.e2)
       IN /\ TRUE \in SimBallisticOutcomes(surf_en_change)
          /\ SimApply("bal", idxg, -UNIT, surf_en_change,
                      sim_detach(grid_states, neibs, front, idxg), "tail")

\* write the state, measure the crystal, push a history point
sim_write(ss) == add_history_point(measure_crystal_sizes(ss, cfg.grid, front))

\* the end of the loop body: mk_step and the periodic output
SimTail ==
  /\ sim.pc = "tail"
  /\ LET ss == [sim_state EXCEPT !.mk_step = sim.step_id]
         write == should_perform_action(sim.step_id, cfg.write_i, cfg.write_i > 0)
     IN /\ sim_state' = IF write THEN sim_write(ss) ELSE ss
        /\ sim' = [sim EXCEPT !.pc = "loop",
                              !.states_written = IF write THEN @ + 1 ELSE @]
  /\ ev' = NoEvent
  /\ UNCHANGED <<ensemble_vars, call, cfg, neibs, grid_states, front>>

\* run_calculations after the kernel returned: the final state and history point
SimFinish ==
  /\ \/ sim.pc = "post"
     \/ sim.pc = "loop" /\ sim.step_id >= cfg.step_lim
  /\ sim_state' = sim_write(sim_state)
  /\ sim' = [sim EXCEPT !.pc = "done", !.states_written = @ + 1]
  /\ ev' = NoEvent
  /\ UNCHANGED <<ensemble_vars, call, cfg, neibs, grid_states, front>>

SingleNext ==
  \/ SimStepBegin
  \/ SimAddSkip \/ SimAddPanic \/ SimAddReject \/ SimAddRefused \/ SimAddAccept
  \/ SimRemSkip \/ SimRemPanic \/ SimRemReject \/ SimRemRefused \/ SimRemAccept
  \/ SimBalSkip \/ SimBalEmpty \/ SimBalPanic \/ SimBalReject \/ SimBalRefused
  \/ SimBalAccept
  \/ SimTail
  \/ SimFinish

SpecSingle == SingleInit /\ [][SingleNext]_vars

\* ------------------------------------------------------------------------
\* model_1_001 : growth from the centre towards the faces of the sample
\* ------------------------------------------------------------------------
\* largest StepLim of a growth run
GrowthStepLim == 4

\* lattices with no periodic axis: a single site, a pair, the 2x2x2 cube (every
\* site on a face), a line, the 3x3x3 cube (the centre is the only interior
\* site), a 5x3x3 bar (three interior sites)
GrowthGrids ==
  {Grid(d[1], d[2], d[3], FALSE, FALSE, FALSE) :
     d \in {<<1, 1, 1>>, <<2, 1, 1>>, <<2, 2, 2>>, <<3, 1, 1>>, <<3, 3, 3>>, <<5, 3, 3>>}}

\* growth runs: attachments at every step, no detachment, no ballistic event
\* (modes 1.1 and 2.1), nothing loaded, StepLim 1 or GrowthStepLim
GrowthConfigs ==
  {[Settings(g, m, <<1, 0>>, -UNIT) EXCEPT !.step_lim = lim] :
     g \in GrowthGrids, m \in {11, 21}, lim \in {1, GrowthStepLim}}

\* the other runs of the fair specification: every mode and schedule on the
\* slab, and the reservoir modes with N0_cr = 6 and N0_cr = 10
SlabConfigs ==
  {Settings(GridSlab, m, s, -UNIT) : m \in {11, 12, 13, 21, 22, 23}, s \in Schedules}
  \cup {Settings(GridSlab, m, s, n * UNIT) :
          m \in {21, 22, 23}, s \in Schedules, n \in {6, 10}}

GrowthInit ==
  \/ \E c \in GrowthConfigs : SingleStart(c, [i \in Sites(c.grid) |-> 0])
  \/ \E c \in SlabConfigs : \E line \in InitLines(c.grid) : SingleStart(c, line)

\* the kernel is a sequential loop: whenever it has a next step it takes it
SpecGrowth == GrowthInit /\ [][SingleNext]_vars /\ WF_vars(SingleNext)

\* ------------------------------------------------------------------------
\* model_1_001 : growth from one seed in the 5x5x5 sample, ten steps
\* ------------------------------------------------------------------------
\* the steps of a seed run in which every site of the gas frontier may be drawn
SeedFullSteps == 1

\* the 5x5x5 sample with no periodic axis, mode 1.1, attachments at every step,
\* no detachment: StepLim = 10 with a driving force of 4 quanta (E_isol is 3),
\* and a short run with no driving force
SeedConfigs ==
  {[Settings(Grid(5, 5, 5, FALSE, FALSE, FALSE), 11, <<1, 0>>, -UNIT)
      EXCEPT !.dg = d[1], !.step_lim = d[2]] : d \in {<<4, 10>>, <<0, 2>>}}

\* the seed runs start from nothing loaded; beside them every mode and schedule
\* on the slab
SeedInit ==
  \/ \E c \in SeedConfigs : SingleStart(c, [i \in Sites(c.grid) |-> 0])
  \/ \E c \in SlabConfigs : \E line \in InitLines(c.grid) : SingleStart(c, line)

\* rng.random_range(0..tpa_len) in a seed run: any index in the first
\* SeedFullSteps steps, the first, the middle or the last index afterwards
SeedDraw ==
  \/ cfg \notin SeedConfigs
  \/ ev'.kind # "add"
  \/ sim.step_id <= SeedFullSteps
  \/ ev'.idxg \in {front.tpas[1], front.tpas[front.tpas_size \div 2 + 1],
                    front.tpas[front.tpas_size]}

SeedNext == SingleNext /\ SeedDraw

SpecSeed == SeedInit /\ [][SeedNext]_vars

\* ------------------------------------------------------------------------
\* model_1_001 : ballistic detachment alone (sim_mode_1_2 with p_b = 1)
\* ------------------------------------------------------------------------
\* a single periodic site, the slab, a slab of four sites (two of them off the
\* faces), the periodic cube, and the line, every site of which is on a face
MeltGrids ==
  {Grid(1, 1, 1, TRUE, TRUE, TRUE), GridSlab, Grid(4, 1, 1, FALSE, TRUE, TRUE),
   GridCube, GridLine}

\* mode 1.2, no thermal event, p_b = 1.0, StepLim the number of sites
MeltConfigs ==
  {[Settings(g, 12, <<0, 0>>, -UNIT) EXCEPT !.p_b = UNIT, !.step_lim = GridSize(g)] :
     g \in MeltGrids}

\* the melting runs start from every loaded line; beside them every mode and
\* schedule on the slab
MeltInit ==
  \/ \E c \in MeltConfigs : \E line \in PhaseArrays(c.grid) : SingleStart(c, line)
  \/ \E c \in SlabConfigs : \E line \in InitLines(c.grid) : SingleStart(c, line)

SpecMelt == MeltInit /\ [][SingleNext]_vars

\* ------------------------------------------------------------------------
\* the step flags of the kernels and of run_simulation on their own
\* ------------------------------------------------------------------------
\* largest AddI and RemI drawn, and the last step of the loop
MaxInterval == 3
MaxFlagStep == 6

\* the flag without its first operand
step_flag_unchecked(check_part, step_id, from, interval) ==
  IF ~(step_id >= from) THEN "false"
  ELSE IF interval = 0 THEN "panic"
  ELSE IF step_id % interval = 0 THEN "true" ELSE "false"

\* a && (b) && (c % d == 0) on u64, as "true" or "false": && evaluates its right
\* operand only when the left one is true; a remainder by zero is a "panic"
step_flag(check_part, step_id, from, interval) ==
  IF ~check_part THEN "false"
  ELSE IF ~(step_id >= from) THEN "false"
  ELSE IF interval = 0 THEN "panic"
  ELSE IF step_id % interval = 0 THEN "true" ELSE "false"

\* the schedules a config file gives: intervals from 0, first steps from 0
FlagConfigs ==
  {[Settings(GridLine, 11, <<i[1], i[2]>>, -UNIT)
      EXCEPT !.add_from = f[1], !.rem_from = f[2], !.step_lim = MaxFlagStep] :
     i \in (0..MaxInterval) \X (0..MaxInterval),
     f \in (0..(MaxInterval + 1)) \X (0..(MaxInterval + 1))}

FlagsInit ==
  /\ cfg \in FlagConfigs
  /\ neibs = precomp_neibs(cfg.grid)
  /\ call = [fn |-> "loop", step_id |-> 0, is_add_step |-> "false", is_rem_step |-> "false"]
  /\ ev = NoEvent
  /\ items = <<>>
  /\ simlog = SimLogNew
  /\ run = [pc |-> "off", step_id |-> 0, item_lid |-> 0, n_cryst_ensemble |-> 0,
            n_before |-> <<>>, n_cryst0 |-> 0, n_gas0 |-> 0, finalized |-> <<>>]
  /\ grid_states = <<>>
  /\ front = FrontierNew(0)
  /\ sim_state = SimulationStateNew(0, 0, 0, 0, 0)
  /\ sim = [pc |-> "off", step_id |-> 0, states_written |-> 0, stalled |-> "no"]

\* the head of the loop body: for step_id in 1..=cfg.step_lim, the two flags
\* from add_check_part = cfg.add_i > 0 and rem_check_part = cfg.rem_i > 0
StepFlags ==
  /\ call.step_id < cfg.step_lim
  /\ call.is_add_step # "panic" /\ call.is_rem_step # "panic"
  /\ LET step_id == call.step_id + 1
     IN call' = [fn |-> "flags", step_id |-> step_id,
                 is_add_step |-> step_flag(cfg.add_i > 0, step_id, cfg.add_from, cfg.add_i),
                 is_rem_step |-> step_flag(cfg.rem_i > 0, step_id, cfg.rem_from, cfg.rem_i)]
  /\ UNCHANGED <<ensemble_vars, single_vars, cfg, neibs, ev>>

FlagsNext == StepFlags

SpecFlags == FlagsInit /\ [][FlagsNext]_vars

\* ------------------------------------------------------------------------
\* item.rs : the ballistic probability of mode_2_3_step in rounded arithmetic
\* ------------------------------------------------------------------------
\* the significand of the floating-point format, in bits (f64 has 53)
MantBits == 3

\* the spacing of the format's values around the magnitude n
RECURSIVE fl_ulp(_, _)
fl_ulp(n, u) == IF n \div u < Pow2(MantBits) THEN u ELSE fl_ulp(n, 2 * u)

\* round to nearest, ties to the even significand
fl_round(v) ==
  LET n == Abs(v)
      u == fl_ulp(n, 1)
      lo == (n \div u) * u
      r == n - lo
      m == IF 2 * r < u THEN lo
           ELSE IF 2 * r > u THEN lo + u
           ELSE IF (lo \div u) % 2 = 0 THEN lo ELSE lo + u
  IN IF v < 0 THEN -m ELSE m

\* a + b of two f64 values
fl_add(a, b) == fl_round(a + b)

\* a detachment energy that adds the quantum of an axis with no crystal
\* neighbour instead of subtracting it
surf_en_change_f64_unsigned(sm, e2) ==
  LET step(acc, a) == IF sm[a] = 0 \/ sm[a] = 2 THEN fl_add(acc, e2[a]) ELSE acc
  IN step(step(step(0, 1), 2), 3)

\* surf_en_change = 0.0 followed by the three matches of the ballistic block
surf_en_change_f64(sm, e2) ==
  LET step(acc, a) == IF sm[a] = 0 THEN fl_add(acc, -e2[a])
                      ELSE IF sm[a] = 2 THEN fl_add(acc, e2[a]) ELSE acc
  IN step(step(step(0, 1), 2), 3)

\* let eisol = ex2 + ey2 + ez2
eisol_f64(e2) == fl_add(fl_add(e2[1], e2[2]), e2[3])

\* 1.0 - (surf_en_change / eisol), as the fraction (eisol - surf_en_change) /
\* eisol: the quotient of two values of the format is 1.0 exactly when they
\* are equal, below 1.0 when the first is smaller, above when it is larger
ballistic_base_f64(surf_en_change, eisol) == Frac(eisol - surf_en_change, eisol)

\* the quanta: 1, 2 and the first power of two whose successor is not a value
\* of the format
Quanta == {1, 2, Pow2(MantBits)}

BaseConfigs ==
  {[Settings(GridCube, 23, <<1, 1>>, -UNIT) EXCEPT !.e2 = q] : q \in Quanta \X Quanta \X Quanta}

\* the replica of any line of the cube, after the rebuild of its frontier
BaseInit ==
  /\ cfg \in BaseConfigs
  /\ neibs = precomp_neibs(cfg.grid)
  /\ \E line \in PhaseArrays(cfg.grid) :
       items = <<stage2_item(cfg, neibs, stage1_items(cfg, <<line>>)[1], 1)>>
  /\ call = [fn |-> "kernel", idxg |-> 0, sm |-> <<0, 0, 0>>, base |-> Frac(1, 1)]
  /\ ev = NoEvent
  /\ simlog = SimLogNew
  /\ run = [pc |-> "off", step_id |-> 0, item_lid |-> 0, n_cryst_ensemble |-> 0,
            n_before |-> <<>>, n_cryst0 |-> 0, n_gas0 |-> 0, finalized |-> <<>>]
  /\ grid_states = <<>>
  /\ front = FrontierNew(0)
  /\ sim_state = SimulationStateNew(0, 0, 0, 0, 0)
  /\ sim = [pc |-> "off", step_id |-> 0, states_written |-> 0, stalled |-> "no"]

\* 'ballistic_rem up to prob: the site sampled from CrystalAdj, its neighbour
\* sums and the base of its probability
BallisticProb ==
  /\ call.fn = "kernel"
  /\ \E idxl \in 0..(items[1].front.tpbs_size - 1) :
       LET idxg == items[1].front.tpbs[idxl + 1]
           sm == compute_neighbor_sums(items[1].state, neibs[idxg])
       IN call' = [fn |-> "prob", idxg |-> idxg, sm |-> sm,
                   base |-> ballistic_base_f64(surf_en_change_f64(sm, cfg.e2),
                                               eisol_f64(cfg.e2))]
  /\ UNCHANGED <<ensemble_vars, single_vars, cfg, neibs, ev>>

BaseNext == BallisticProb

SpecBase == BaseInit /\ [][BaseNext]_vars

\* ------------------------------------------------------------------------
\* lattice.rs on its own : Grid::new and the two index conversions
\* ------------------------------------------------------------------------
\* largest dimension drawn for a lattice
MaxDim == 3

\* every lattice of dimensions 1..MaxDim with every choice of periodic axes
LatticeGrids ==
  {Grid(d[1], d[2], d[3], p[1], p[2], p[3]) :
     d \in (1..MaxDim) \X (1..MaxDim) \X (1..MaxDim),
     p \in BOOLEAN \X BOOLEAN \X BOOLEAN}

\* Grid::new before precomp_neibs: every entry of neibs is usize::MAX
LatticeInit ==
  /\ \E g \in LatticeGrids : cfg = Settings(g, 11, <<1, 0>>, -UNIT)
  /\ neibs = [idx \in Sites(cfg.grid) |-> [i \in 1..6 |-> NONE]]
  /\ call = [NoCall EXCEPT !.fn = "alloc"]
  /\ ev = NoEvent
  /\ items = <<>>
  /\ simlog = SimLogNew
  /\ run = [pc |-> "off", step_id |-> 0, item_lid |-> 0, n_cryst_ensemble |-> 0,
            n_before |-> <<>>, n_cryst0 |-> 0, n_gas0 |-> 0, finalized |-> <<>>]
  /\ grid_states = <<>>
  /\ front = FrontierNew(0)
  /\ sim_state = SimulationStateNew(0, 0, 0, 0, 0)
  /\ sim = [pc |-> "off", step_id |-> 0, states_written |-> 0, stalled |-> "no"]

\* grid.precomp_neibs(), the last statement of Grid::new
GridNew ==
  /\ call.fn = "alloc"
  /\ neibs' = precomp_neibs(cfg.grid)
  /\ call' = [call EXCEPT !.fn = "new"]
  /\ UNCHANGED <<ensemble_vars, single_vars, cfg, ev>>

\* grid.xyz_to_idx(x, y, z) on coordinates of the lattice
XyzToIdx ==
  /\ call.fn # "alloc"
  /\ \E x \in 0..(cfg.grid.nx - 1), y \in 0..(cfg.grid.ny - 1), z \in 0..(cfg.grid.nz - 1) :
       call' = [fn |-> "xyz_to_idx", xyz |-> [x |-> x, y |-> y, z |-> z],
                idx |-> xyz_to_idx(cfg.grid, x, y, z)]
  /\ UNCHANGED <<ensemble_vars, single_vars, cfg, neibs, ev>>

\* grid.idx_to_xyz(idx) on a site of the lattice
IdxToXyz ==
  /\ call.fn # "alloc"
  /\ \E idx \in Sites(cfg.grid) :
       call' = [fn |-> "idx_to_xyz", idx |-> idx, xyz |-> idx_to_xyz(cfg.grid, idx)]
  /\ UNCHANGED <<ensemble_vars, single_vars, cfg, neibs, ev>>

LatticeNext == GridNew \/ XyzToIdx \/ IdxToXyz

SpecLattice == LatticeInit /\ [][LatticeNext]_vars

\* ------------------------------------------------------------------------
\* frontier.rs on its own : Frontier::new and the four calls, on any site in
\* any order
\* ------------------------------------------------------------------------
\* the lattices a Frontier is made for: two sites and three sites
FrontierGrids == {Grid(2, 1, 1, FALSE, FALSE, FALSE), GridLine}

\* most adds on a site tagged the other kind in one history (each one leaves a
\* site stored in a vector whose kind is not its tag)
MaxCrossed == 4

\* an add on a site tagged the other kind is drawn on the two-site Frontier,
\* MaxCrossed times at most
MayCross == cfg.grid # GridLine /\ call.crossed < MaxCrossed

\* the call just made on the Frontier: fn and idx, pre the Frontier before it;
\* undo, whether it is the remove that follows at once the add of the same
\* kind on the same site, and then base is the Frontier before that add;
\* crossed, the number of adds so far applied to a site tagged the other kind
FrontCall(fn, idx) ==
  LET undo == /\ call.idx = idx
              /\ \/ fn = "tpa_rem" /\ call.fn = "tpa_add"
                 \/ fn = "tpb_rem" /\ call.fn = "tpb_add"
  IN [fn |-> fn, idx |-> idx, pre |-> front,
      undo |-> undo, base |-> IF undo THEN call.pre ELSE front,
      crossed |-> IF \/ fn = "tpa_add" /\ front.idxg_to_type[idx] = 3
                     \/ fn = "tpb_add" /\ front.idxg_to_type[idx] = 2
                    THEN call.crossed + 1 ELSE call.crossed]

\* Frontier::new(total_grid_size)
FrontierInit ==
  /\ \E g \in FrontierGrids : cfg = Settings(g, 11, <<0, 0>>, -UNIT)
  /\ neibs = precomp_neibs(cfg.grid)
  /\ front = FrontierNew(GridSize(cfg.grid))
  /\ call = [fn |-> "new", idx |-> 0, pre |-> front,
             undo |-> FALSE, base |-> front, crossed |-> 0]
  /\ ev = NoEvent
  /\ items = <<>>
  /\ simlog = SimLogNew
  /\ run = [pc |-> "off", step_id |-> 0, item_lid |-> 0, n_cryst_ensemble |-> 0,
            n_before |-> <<>>, n_cryst0 |-> 0, n_gas0 |-> 0, finalized |-> <<>>]
  /\ grid_states = <<>>
  /\ sim_state = SimulationStateNew(0, 0, 0, 0, 0)
  /\ sim = [pc |-> "off", step_id |-> 0, states_written |-> 0, stalled |-> "no"]

TpaAdd ==
  /\ \E idxg \in Sites(cfg.grid) :
       /\ front.idxg_to_type[idxg] = 3 => MayCross
       /\ front' = tpa_add(front, idxg)
       /\ call' = FrontCall("tpa_add", idxg)
  /\ UNCHANGED <<ensemble_vars, cfg, neibs, ev, grid_states, sim_state, sim>>

TpaRem ==
  /\ \E idxg \in Sites(cfg.grid) :
       /\ front' = tpa_rem(front, idxg)
       /\ call' = FrontCall("tpa_rem", idxg)
  /\ UNCHANGED <<ensemble_vars, cfg, neibs, ev, grid_states, sim_state, sim>>

TpbAdd ==
  /\ \E idxg \in Sites(cfg.grid) :
       /\ front.idxg_to_type[idxg] = 2 => MayCross
       /\ front' = tpb_add(front, idxg)
       /\ call' = FrontCall("tpb_add", idxg)
  /\ UNCHANGED <<ensemble_vars, cfg, neibs, ev, grid_states, sim_state, sim>>

TpbRem ==
  /\ \E idxg \in Sites(cfg.grid) :
       /\ front' = tpb_rem(front, idxg)
       /\ call' = FrontCall("tpb_rem", idxg)
  /\ UNCHANGED <<ensemble_vars, cfg, neibs, ev, grid_states, sim_state, sim>>

FrontierNext == TpaAdd \/ TpaRem \/ TpbAdd \/ TpbRem

SpecFrontier == FrontierInit /\ [][FrontierNext]_vars

\* ------------------------------------------------------------------------
\* utils.rs on its own : rebuild_front on a new Frontier
\* ------------------------------------------------------------------------
\* the lattices a phase array is drawn for: the line, the slab, the cube, the
\* cube with faces, a plate periodic in x, the single site that is its own
\* neighbour
RebuildGrids ==
  {GridLine, GridSlab, GridCube, Grid(2, 2, 2, FALSE, FALSE, FALSE),
   Grid(3, 2, 1, TRUE, FALSE, FALSE), Grid(1, 1, 1, TRUE, TRUE, TRUE)}

\* a lattice, any phase array over {0, 1} on it, and Frontier::new
RebuildInit ==
  /\ \E g \in RebuildGrids : cfg = Settings(g, 11, <<0, 0>>, -UNIT)
  /\ neibs = precomp_neibs(cfg.grid)
  /\ grid_states \in PhaseArrays(cfg.grid)
  /\ front = FrontierNew(GridSize(cfg.grid))
  /\ call = [NoCall EXCEPT !.fn = "load"]
  /\ ev = NoEvent
  /\ items = <<>>
  /\ simlog = SimLogNew
  /\ run = [pc |-> "off", step_id |-> 0, item_lid |-> 0, n_cryst_ensemble |-> 0,
            n_before |-> <<>>, n_cryst0 |-> 0, n_gas0 |-> 0, finalized |-> <<>>]
  /\ sim_state = SimulationStateNew(0, 0, 0, 0, 0)
  /\ sim = [pc |-> "off", step_id |-> 0, states_written |-> 0, stalled |-> "no"]

\* rebuild_front(&states, &neibs, &mut front); call.idx holds the count returned
RebuildFront ==
  /\ call.fn = "load"
  /\ LET rb == rebuild_front(grid_states, neibs, front)
     IN /\ front' = rb.front
        /\ call' = [call EXCEPT !.fn = "rebuild_front", !.idx = rb.cluster_size]
  /\ UNCHANGED <<ensemble_vars, cfg, neibs, ev, grid_states, sim_state, sim>>

RebuildNext == RebuildFront

SpecRebuild == RebuildInit /\ [][RebuildNext]_vars

\* ------------------------------------------------------------------------
\* Setup of the two programs : model_1_001 main.rs, model_1_002 ensemble.rs
\* Ensemble::new, up to the call of the step loop
\* ------------------------------------------------------------------------
\* Settings::validate: the key of the first range check that fails, or "ok"
validate(c) ==
  IF c.grid.nx = 0 THEN "Sx"
  ELSE IF c.grid.ny = 0 THEN "Sy"
  ELSE IF c.grid.nz = 0 THEN "Sz"
  ELSE IF c.temperature <= 0 THEN "T"
  ELSE IF c.add_from < 1 THEN "AddFrom"
  ELSE IF c.rem_from < 1 THEN "RemFrom"
  ELSE IF \A k \in 1..Len(c.dir_prefix) : c.dir_prefix[k] = " " THEN "DirPrefix"
  ELSE "ok"

\* the configurations a config file gives: dimensions from 0, T of either sign
\* or zero, AddFrom and RemFrom from 0, DirPrefix empty, blank or not, a mode
\* with and one without reservoir, N0_cr negative, zero and positive
SetupConfigs ==
  {[Settings(Grid(d[1], d[2], d[3], FALSE, FALSE, FALSE), m, <<1, 0>>, n * UNIT)
      EXCEPT !.add_from = f[1], !.rem_from = f[2]]
     @@ [temperature |-> t, dir_prefix |-> dp] :
     d \in (0..2) \X (0..2) \X (0..2), f \in (0..1) \X (0..1), t \in {-1, 0, 1},
     dp \in {<<>>, <<" ">>, <<"a">>}, m \in {11, 21}, n \in {-1, 0, 3}}

\* either program, started on a config file that load_config reads (call.ok)
\* or fails on; no lattice yet
SetupInit ==
  /\ cfg \in SetupConfigs
  /\ neibs = <<>>
  /\ \E ok \in BOOLEAN : call = [fn |-> "load_config", ok |-> ok]
  /\ \E program \in {"model_1_001", "model_1_002"} :
       /\ sim = [pc |-> IF program = "model_1_001" THEN "setup" ELSE "off",
                 step_id |-> 0, states_written |-> 0, stalled |-> "no"]
       /\ run = [pc |-> IF program = "model_1_002" THEN "setup" ELSE "off",
                 step_id |-> 0, item_lid |-> 0, n_cryst_ensemble |-> 0,
                 n_before |-> <<>>, n_cryst0 |-> 0, n_gas0 |-> 0, finalized |-> <<>>]
  /\ ev = NoEvent
  /\ items = <<>>
  /\ simlog = SimLogNew
  /\ grid_states = <<>>
  /\ front = FrontierNew(0)
  /\ sim_state = SimulationStateNew(0, 0, 0, 0, 0)

\* main: match load_config(&mut cfg).and_then(|_| Ok(cfg.validate())): the
\* value of validate is wrapped in Ok, and the arm Ok(_) takes it whatever it is
MainLoadValidate ==
  /\ sim.pc = "setup"
  /\ sim' = [sim EXCEPT !.pc = IF call.ok THEN "valid" ELSE "exit"]
  /\ call' = [call EXCEPT !.fn = "validate"]
  /\ UNCHANGED <<ensemble_vars, cfg, neibs, ev, grid_states, front, sim_state>>

\* main: Grid::new, Frontier::new
MainGridNew ==
  /\ sim.pc = "valid"
  /\ neibs' = precomp_neibs(cfg.grid)
  /\ front' = FrontierNew(GridSize(cfg.grid))
  /\ grid_states' = [i \in Sites(cfg.grid) |-> 0]
  /\ sim' = [sim EXCEPT !.pc = "grid"]
  /\ call' = [call EXCEPT !.fn = "Grid::new"]
  /\ UNCHANGED <<ensemble_vars, cfg, ev, sim_state>>

\* main: run_calculations, which begins with activate_center: an error when
\* the centre index is not a site, else the kernel's step loop is entered
MainRun ==
  /\ sim.pc = "grid"
  /\ sim' = [sim EXCEPT !.pc =
               IF xyz_to_idx(cfg.grid, cfg.grid.nx \div 2, cfg.grid.ny \div 2,
                             cfg.grid.nz \div 2) >= GridSize(cfg.grid)
                 THEN "exit" ELSE "loop"]
  /\ call' = [call EXCEPT !.fn = "run_calculations"]
  /\ UNCHANGED <<ensemble_vars, cfg, neibs, ev, grid_states, front, sim_state>>

\* Ensemble::new: load_config(..)?; cfg.validate()?;
EnsLoadValidate ==
  /\ run.pc = "setup"
  /\ run' = [run EXCEPT !.pc = IF call.ok /\ validate(cfg) = "ok" THEN "valid" ELSE "exit"]
  /\ call' = [call EXCEPT !.fn = "validate"]
  /\ UNCHANGED <<single_vars, cfg, neibs, ev, items, simlog>>

\* Ensemble::new: Grid::new
EnsGridNew ==
  /\ run.pc = "valid"
  /\ neibs' = precomp_neibs(cfg.grid)
  /\ run' = [run EXCEPT !.pc = "grid"]
  /\ call' = [call EXCEPT !.fn = "Grid::new"]
  /\ UNCHANGED <<single_vars, cfg, ev, items, simlog>>

\* Ensemble::new: initialization_stage1 on one or two loaded lines,
\* initialization_stage2; run_simulation is called next
EnsInitStages ==
  /\ run.pc = "grid"
  /\ \E items_len0 \in {1, 2} :
       \E lines \in [1..items_len0 -> EnsembleLines(cfg.grid)] :
         LET its == [k \in 1..items_len0 |->
                       stage2_item(cfg, neibs, stage1_items(cfg, lines)[k], items_len0)]
             ens == stage2_simlog(cfg, its)
         IN /\ simlog' = ens
            /\ items' = [k \in 1..items_len0 |-> stage2_broadcast(cfg, its[k], ens)]
            /\ run' = [run EXCEPT !.pc = "loop", !.n_cryst0 = ens.n_cryst,
                                  !.n_gas0 = ens.n_gas,
                                  !.finalized = [k \in 1..items_len0 |-> 0]]
  /\ call' = [call EXCEPT !.fn = "run_simulation"]
  /\ UNCHANGED <<single_vars, cfg, neibs, ev>>

SetupNext ==
  \/ MainLoadValidate \/ MainGridNew \/ MainRun
  \/ EnsLoadValidate \/ EnsGridNew \/ EnsInitStages

SpecSetup == SetupInit /\ [][SetupNext]_vars

\* ------------------------------------------------------------------------
\* ensemble.rs : two runs of run_simulation side by side, fed the same draws
\* ------------------------------------------------------------------------
\* the runs that are doubled: the slab with one or two replicas, the three
\* reservoir kernels, attachments and detachments in every step
TwinConfigs == {Settings(GridSlab, m, <<1, 1>>, -UNIT) : m \in {21, 22, 23}}

\* the state of one run of run_simulation
RunState == <<items, simlog, run>>

\* the first run is in items, simlog, run as EnsembleInit leaves them; call
\* holds the second run (other), the state both runs were in before the step
\* under way (pre), and the draws the first run consumed in it (draw)
TwinInit ==
  /\ cfg \in TwinConfigs
  /\ neibs = precomp_neibs(cfg.grid)
  /\ \E items_len0 \in ItemCounts(cfg.grid) :
       \E lines \in [1..items_len0 -> EnsembleLines(cfg.grid)] :
         LET its == [k \in 1..items_len0 |->
                       stage2_item(cfg, neibs, stage1_items(cfg, lines)[k], items_len0)]
             ens == stage2_simlog(cfg, its)
         IN /\ simlog = ens
            /\ items = [k \in 1..items_len0 |-> stage2_broadcast(cfg, its[k], ens)]
  /\ run = [pc |-> "loop", step_id |-> 0, item_lid |-> 0, n_cryst_ensemble |-> 0,
            n_before |-> <<>>, n_cryst0 |-> simlog.n_cryst, n_gas0 |-> simlog.n_gas,
            finalized |-> [k \in 1..Len(items) |-> 0]]
  /\ ev = NoEvent
  /\ grid_states = <<>>
  /\ front = FrontierNew(0)
  /\ sim_state = SimulationStateNew(0, 0, 0, 0, 0)
  /\ sim = [pc |-> "off", step_id |-> 0, states_written |-> 0, stalled |-> "no"]
  /\ call = [fn |-> "first", other |-> RunState, pre |-> RunState, draw |-> NoEvent]

\* the first run takes a step of run_simulation, with draws of its own
TwinFirst ==
  /\ call.fn = "first"
  /\ RunState = call.other
  /\ EnsembleNext

\* the second run comes in, in the state the first run stepped from
TwinSwap ==
  /\ call.fn = "first"
  /\ RunState # call.other
  /\ items' = call.other[1]
  /\ simlog' = call.other[2]
  /\ run' = call.other[3]
  /\ call' = [fn |-> "second", other |-> RunState, pre |-> call.other, draw |-> ev]
  /\ UNCHANGED <<single_vars, cfg, neibs, ev>>

\* the second run takes the step, fed the draws of the first
TwinSecond ==
  /\ call.fn = "second"
  /\ RunState = call.pre
  /\ EnsembleNext
  /\ ev' = call.draw

\* both runs have stepped; the first run goes on
TwinJoin ==
  /\ call.fn = "second"
  /\ RunState # call.pre
  /\ items' = call.other[1]
  /\ simlog' = call.other[2]
  /\ run' = call.other[3]
  /\ call' = [fn |-> "first", other |-> RunState, pre |-> RunState, draw |-> NoEvent]
  /\ UNCHANGED <<single_vars, cfg, neibs, ev>>

TwinNext == TwinFirst \/ TwinSwap \/ TwinSecond \/ TwinJoin

SpecTwin == TwinInit /\ [][TwinNext]_vars


\* ------------------------------------------------------------------------
\* The interface read off a phase array
\* ------------------------------------------------------------------------
\* the members of the two frontier vectors
GasAdj(f) == {f.tpas[k] : k \in 1..Len(f.tpas)}
CrystalAdj(f) == {f.tpbs[k] : k \in 1..Len(f.tpbs)}

\* the in-domain neighbours of site i
InDomain(nb, i) == {nb[i][k] : k \in 1..6} \ {NONE}

\* gas sites with an in-domain crystal neighbour, crystal sites with an
\* in-domain gas neighbour
TrueGasAdj(state, nb) ==
  {i \in DOMAIN state : state[i] = 0 /\ \E n \in InDomain(nb, i) : state[n] = 1}
TrueCrystalAdj(state, nb) ==
  {i \in DOMAIN state : state[i] = 1 /\ \E n \in InDomain(nb, i) : state[n] = 0}

\* the frontier is exactly the interface of the phase array, and has the
\* members a rebuild from the phase array would give it
FrontIsInterface(state, nb, f) ==
  LET rb == rebuild_front(state, nb, FrontierNew(Cardinality(DOMAIN state))).front
  IN /\ GasAdj(f) = TrueGasAdj(state, nb)
     /\ CrystalAdj(f) = TrueCrystalAdj(state, nb)
     /\ GasAdj(f) = GasAdj(rb)
     /\ CrystalAdj(f) = CrystalAdj(rb)

\* every member of the frontier is on the interface of the phase array
FrontMembersSound(state, nb, f) ==
  /\ GasAdj(f) \subseteq TrueGasAdj(state, nb)
  /\ CrystalAdj(f) \subseteq TrueCrystalAdj(state, nb)

\* the Frontier structure is well formed
FrontWellFormed(f) ==
  /\ Len(f.tpas) = f.tpas_size /\ Len(f.tpbs) = f.tpbs_size
  /\ \A a, b \in 1..Len(f.tpas) : f.tpas[a] = f.tpas[b] => a = b
  /\ \A a, b \in 1..Len(f.tpbs) : f.tpbs[a] = f.tpbs[b] => a = b
  /\ \A i \in DOMAIN f.idxg_to_type :
       /\ (i \in GasAdj(f)) <=> (f.idxg_to_type[i] = 2)
       /\ (i \in CrystalAdj(f)) <=> (f.idxg_to_type[i] = 3)
  /\ \A k \in 1..Len(f.tpas) : f.idxg_to_idxl[f.tpas[k]] = k - 1
  /\ \A k \in 1..Len(f.tpbs) : f.idxg_to_idxl[f.tpbs[k]] = k - 1
  /\ GasAdj(f) \cap CrystalAdj(f) = {}

\* the global step has ended (or none has begun): the ensemble is at rest
AtRest == run.pc \in {"loop", "post", "done"}

\* ------------------------------------------------------------------------
\* Claims
\* ------------------------------------------------------------------------
\* C1: in the ensemble program, the frontier of every alive replica is exactly
\* the interface of its phase array (GasAdj = gas sites with an in-domain
\* crystal neighbour, CrystalAdj = crystal sites with an in-domain gas
\* neighbour), as a rebuild from the phase array gives it, after
\* initialisation and after any sequence of kernel events.
C1_AliveFrontIsInterface ==
  \A k \in 1..Len(items) :
    items[k].is_alive => FrontIsInterface(items[k].state, neibs, items[k].front)

\* a replica is still alive after an accepted detachment in the second step
C1_Witness ==
  /\ run.step_id >= 2 /\ run.pc \in {"bal", "ret"}
  /\ ev.kind = "rem" /\ ev.accepted
  /\ items[run.item_lid].is_alive
  /\ items[run.item_lid].front.tpas_size >= 2

\* C2: in the single-replica program, after any sequence of accepted
\* attachments, thermal detachments and ballistic detachments of the kernels
\* sim_mode_1_1 .. sim_mode_2_3 that has not ended the run, the frontier is
\* exactly the interface of the phase array.
C2_SingleFrontIsInterface ==
  sim.pc \in {"loop", "add", "rem", "bal", "tail"} =>
    FrontIsInterface(grid_states, neibs, front)

\* C3: in the ensemble program, after every accepted event, the one that
\* retires the replica with BoundaryHit included, every member of CrystalAdj
\* is a crystal site with an in-domain gas neighbour and every member of
\* GasAdj is a gas site with an in-domain crystal neighbour.
C3_MembersSoundAfterEvent ==
  (ev.accepted /\ run.pc # "panic") =>
    FrontMembersSound(items[run.item_lid].state, neibs, items[run.item_lid].front)

\* C4: every Frontier of the ensemble is well formed: no duplicates, the
\* vectors as long as the size counters say, a site in a vector exactly when its
\* tag is the vector's kind, the reverse index right for every member, no site
\* in both vectors.
C4_FrontiersWellFormed ==
  \A k \in 1..Len(items) : FrontWellFormed(items[k].front)

\* a swap-remove moved the last member into a hole: after an accepted event
\* the vector the site left still has a member
C4_Witness ==
  /\ ev.accepted /\ run.pc # "panic"
  /\ \/ ev.kind = "add" /\ items[run.item_lid].front.tpas_size >= 2
     \/ ev.kind \in {"rem", "bal"} /\ items[run.item_lid].front.tpbs_size >= 2

\* C5: in the ensemble program, whenever a kernel samples GasAdj (an add
\* step) or CrystalAdj (a rem step, a ballistic sample), the sampled set is
\* not empty.
C5_SampledSetNonEmpty ==
  /\ (run.pc = "add" /\ is_add_step) => items[run.item_lid].front.tpas_size > 0
  /\ (run.pc = "rem" /\ is_rem_step) => items[run.item_lid].front.tpbs_size > 0
  /\ (run.pc = "bal" /\ BallisticGate = {TRUE}) => items[run.item_lid].front.tpbs_size > 0

\* a replica stays alive after an accepted ballistic detachment in the second step
C6_Witness ==
  /\ ev.kind = "bal" /\ ev.accepted /\ run.step_id >= 2
  /\ items[run.item_lid].is_alive

\* C6: in every ensemble kernel an accepted attachment turns exactly one gas
\* site into crystal (the crystal count grows by 1), an accepted thermal or
\* ballistic detachment turns exactly one crystal site into gas (the count
\* falls by 1), a rejected proposal changes no phase and no frontier
\* membership, and every phase stays 0 or 1.
C6_EventChangesOneSite ==
  [][ev'.kind \in {"add", "rem", "bal"} =>
       LET before == items[run.item_lid]
           after == items'[run.item_lid]
           to == IF ev'.kind = "add" THEN 1 ELSE 0
       IN /\ \A i \in DOMAIN after.state : after.state[i] \in {0, 1}
          /\ IF ev'.accepted
               THEN /\ before.state[ev'.idxg] = 1 - to
                    /\ after.state = [before.state EXCEPT ![ev'.idxg] = to]
                    /\ CrystalCount(after.state) =
                         CrystalCount(before.state) + (IF to = 1 THEN 1 ELSE -1)
               ELSE /\ after.state = before.state
                    /\ GasAdj(after.front) = GasAdj(before.front)
                    /\ CrystalAdj(after.front) = CrystalAdj(before.front)]_vars

\* the replicas of the live list, by their n_cryst
LiveCrystal == SumSeq([k \in 1..Len(items) |-> items[k].simlog.n_cryst])

\* C7: in mode 2.x, after initialisation and after every global step, the
\* ensemble's n_cryst is the sum of the n_cryst of the replicas in the live list.
C7_EnsembleCrystalIsLiveSum ==
  (cfg.mode >= 21 /\ AtRest) => simlog.n_cryst = LiveCrystal

\* a global step of two replicas has ended and changed the ensemble's n_cryst
C7_Witness ==
  /\ cfg.mode >= 21 /\ run.pc = "loop" /\ run.step_id >= 1
  /\ Len(items) = 2 /\ simlog.n_cryst # run.n_cryst0

\* C8: over a global step the ensemble's n_cryst changes by exactly the sum,
\* over the replicas alive after the step, of (n_cryst after - n_cryst before);
\* a step in which replicas only retire moves nothing between n_cryst and n_gas.
C8_StepChangeIsAliveDelta ==
  [][run.pc = "agg" =>
       LET alive == {k \in 1..Len(items) : items[k].is_alive}
           delta == SumSeq([k \in 1..Len(items) |->
                              IF k \in alive
                                THEN items[k].simlog.n_cryst - run.n_before[k]
                                ELSE 0])
       IN /\ simlog'.n_cryst - simlog.n_cryst = delta
          /\ simlog'.n_gas - simlog.n_gas = -delta]_vars

\* C9: in mode 2.x the ensemble's n_gas + n_cryst is after every global step
\* what it was after initialisation, retirements included.
C9_MatterConserved ==
  (cfg.mode >= 21 /\ AtRest) =>
    simlog.n_gas + simlog.n_cryst = run.n_gas0 + run.n_cryst0

\* a global step in which a replica retired has ended, and n_cryst has changed
C9_Witness ==
  /\ cfg.mode >= 21 /\ AtRest /\ run.step_id >= 1
  /\ Len(items) < Len(run.n_before)
  /\ simlog.n_cryst # run.n_cryst0

\* C10: a mode 2.x ensemble that starts with n_gas >= 0 and n_tot > n_cryst has
\* conc >= 0 (n_gas >= 0) after every global step.
C10_ConcNonNegativeAtRest ==
  (cfg.mode >= 21 /\ run.n_gas0 >= 0 /\ cfg.n_tot > run.n_cryst0
     /\ AtRest /\ run.step_id >= 1) =>
    (~IsNegative(simlog.conc) /\ simlog.n_gas >= 0)

\* the particle change of an event kind: +1 for an attachment, -1 for a
\* thermal or ballistic detachment
ParticleChange(kind) == IF kind = "add" THEN UNIT ELSE -UNIT

\* the concentration the tentative update n_crystal += d, n_gas -= d gives is negative
TentativeNegative(ss, d) ==
  IsNegative(Frac(ss.n_gas - d, ss.n_total - (ss.n_crystal + d)))

C12_KernelKeepsOwnGas ==
  [][(run.pc \in {"add", "rem", "bal"} /\ run'.pc # "panic") =>
       LET before == items[run.item_lid].simlog
           after == items'[run.item_lid].simlog
       IN /\ after.n_gas = before.n_gas
          /\ after.n_tot = before.n_tot
          /\ after.conc_eq = before.conc_eq
          /\ after.dg = before.dg
          /\ after.n_cryst =
               IF ev'.accepted THEN before.n_cryst + ParticleChange(ev'.kind)
               ELSE before.n_cryst]_vars

\* the dg initialize gives a mode 2.x SimLog: k_T * ln(C0 / C_eq)
InitialDg == LnRatio(Frac(cfg.c0, UNIT), cfg.c_eq)

\* C13: in the ensemble program every alive replica holds the ensemble's dg,
\* after initialisation, after every global step that leaves a replica alive
\* and all through a global step; a kernel call changes neither the replica's
\* dg nor the ensemble's SimLog, so every acceptance test of global step s
\* uses the dg the ensemble computed at the end of step s-1.
C13_ReplicaDgIsEnsembleDg ==
  /\ [](\A k \in 1..Len(items) :
          items[k].is_alive => items[k].simlog.dg = simlog.dg)
  /\ [][run.pc \in {"add", "rem", "bal", "ret"} =>
          /\ items'[run.item_lid].simlog.dg = items[run.item_lid].simlog.dg
          /\ simlog' = simlog]_vars

\* the second global step of two replicas begins with a dg that is no longer
\* the initial one
C13_Witness ==
  /\ cfg.mode >= 21 /\ run.step_id = 2 /\ run.pc = "add" /\ run.item_lid = 1
  /\ Len(items) = 2
  /\ simlog.dg # InitialDg
  /\ items[1].simlog.dg = simlog.dg /\ items[2].simlog.dg = simlog.dg

\* the times replica gid has been finalised
Finalized(item) == run.finalized[item.item_gid + 1]

\* C14: in the ensemble loop a replica whose kernel returned dead in global
\* step s is finalised (final snapshot, log flush) in step s, is out of the
\* live list before step s+1 begins and is never stepped again; no replica is
\* finalised twice, a replica that left the list has been finalised, and when
\* the run has ended every replica has been finalised exactly once.
C14_FinalisedExactlyOnce ==
  /\ \A g \in 1..Len(run.finalized) :
       /\ run.finalized[g] <= 1
       /\ (\A k \in 1..Len(items) : items[k].item_gid + 1 # g) => run.finalized[g] = 1
       /\ run.pc = "done" => run.finalized[g] = 1
  /\ \A k \in 1..Len(items) :
       /\ items[k].simlog.flushed = Finalized(items[k])
       /\ (items[k].is_alive /\ run.pc # "done") => Finalized(items[k]) = 0
       /\ ~items[k].is_alive =>
            /\ items[k].simlog.mk_step = run.step_id
            /\ run.pc \in {"add", "rem", "bal", "ret", "agg", "panic"}
            /\ Finalized(items[k]) = 0 <=> (run.pc = "ret" /\ k = run.item_lid)
            /\ Finalized(items[k]) = 1 => items[k].snapshots >= 2
  /\ run.pc \in {"add", "rem", "bal"} => items[run.item_lid].is_alive

\* the run has ended after two global steps; one of its two replicas retired
\* inside the loop, the other was finalised after it
C14_Witness ==
  /\ run.pc = "done" /\ run.step_id = 2
  /\ Len(run.finalized) = 2 /\ Len(items) = 1
  /\ items[1].simlog.flushed = 1

\* the neighbour row of site idxg has a NONE entry: the site lies on a
\* non-periodic face of the sample
OnFace(nb, idxg) == NONE \in {nb[idxg][d] : d \in 1..6}

\* C15: in every ensemble kernel an accepted event leaves the replica dead
\* with the boundary status and mk_step = step exactly when the flipped site
\* has a NONE entry in its neighbour row; only a dead replica carries the
\* boundary status, and on a lattice periodic in x, y and z no replica ever
\* carries it.
C15_BoundaryHitIffFaceSite ==
  /\ ev.accepted =>
       LET item == items[run.item_lid]
       IN (/\ item.stalled = "boundary"
           /\ ~item.is_alive
           /\ item.simlog.mk_step = run.step_id) <=> OnFace(neibs, ev.idxg)
  /\ \A k \in 1..Len(items) :
       /\ items[k].stalled = "boundary" => ~items[k].is_alive
       /\ (cfg.grid.px /\ cfg.grid.py /\ cfg.grid.pz) => items[k].stalled # "boundary"

\* on the slab, whose middle site touches no face, an accepted detachment of a
\* face site in the second step has retired the replica with the boundary status
C15_Witness ==
  /\ cfg.grid = GridSlab /\ run.step_id = 2
  /\ ev.accepted /\ ev.kind \in {"rem", "bal"} /\ OnFace(neibs, ev.idxg)
  /\ items[run.item_lid].stalled = "boundary"

\* C16: in every ensemble kernel, after an accepted event on a site with no
\* NONE neighbour, the replica is dead with the empty-front status and
\* mk_step = step exactly when GasAdj or CrystalAdj is empty after the patch,
\* and is alive with no status otherwise.
C16_FrontExhaustedIffEmpty ==
  (ev.accepted /\ ~OnFace(neibs, ev.idxg)) =>
    LET item == items[run.item_lid]
    IN IF GasAdj(item.front) = {} \/ CrystalAdj(item.front) = {}
         THEN /\ ~item.is_alive
              /\ item.stalled = "front"
              /\ item.simlog.mk_step = run.step_id
         ELSE /\ item.is_alive
              /\ item.stalled = "no"

\* an accepted attachment away from any face, in the second step, filled the
\* last gas site: the frontier is empty and the replica is retired
C16_Witness ==
  /\ ev.accepted /\ ev.kind = "add" /\ ~OnFace(neibs, ev.idxg) /\ run.step_id = 2
  /\ items[run.item_lid].front.tpas_size = 0
  /\ items[run.item_lid].stalled = "front"

\* the start of a growth run: no periodic axis, attachments only, no ballistic
\* event, and the centre site the only crystal site
GrowthStart ==
  /\ ~cfg.grid.px /\ ~cfg.grid.py /\ ~cfg.grid.pz
  /\ cfg.mode \in {11, 21} /\ cfg.add_i = 1 /\ cfg.rem_i = 0
  /\ sim.pc = "loop" /\ sim.step_id = 0
  /\ grid_states = activate_center(cfg.grid, [i \in Sites(cfg.grid) |-> 0])

\* the attachments accepted so far in a growth run
AcceptedAttachments == CrystalCount(grid_states) - 1

\* an attachment was proposed and not applied (Metropolis test or reservoir)
AttachmentRejected == ev.kind = "add" /\ ~ev.accepted /\ sim.pc # "panic"

\* an accepted attachment on a face site has just broken the loop
FaceHit ==
  /\ sim.pc = "post" /\ sim.stalled = "boundary"
  /\ ev.kind = "add" /\ ev.accepted /\ OnFace(neibs, ev.idxg)
  /\ sim_state.mk_step = sim.step_id

\* the run has ended on the boundary and the final state has been written after
\* the loop, on top of the first state and the periodic ones
EndedOnBoundary ==
  /\ sim.pc = "done" /\ sim.stalled = "boundary"
  /\ sim.states_written = 2 + (sim.step_id - 1) \div cfg.write_i

\* (Sx-2)(Sy-2)(Sz-2)
InteriorProduct(g) == (g.nx - 2) * (g.ny - 2) * (g.nz - 2)

\* the number of sites that lie on no face
InnerSites(g) ==
  (IF g.nx >= 2 THEN g.nx - 2 ELSE 0) * (IF g.ny >= 2 THEN g.ny - 2 ELSE 0)
    * (IF g.nz >= 2 THEN g.nz - 2 ELSE 0)

\* the most attachments a growth run can hold: the inner sites, and 1 when the
\* centre itself is on a face
GrowthBound(g) == IF InnerSites(g) >= 1 THEN InnerSites(g) ELSE 1

\* a growth run whose StepLim allows (Sx-2)(Sy-2)(Sz-2) steps
GrowthStartClaimed == GrowthStart /\ cfg.step_lim >= InteriorProduct(cfg.grid)

\* a growth run on more than one site whose StepLim allows GrowthBound steps
GrowthStartAmended ==
  /\ GrowthStart
  /\ GridSize(cfg.grid) > 1
  /\ cfg.step_lim >= GrowthBound(cfg.grid)

\* C17 as stated: a growth run whose StepLim is at least (Sx-2)(Sy-2)(Sz-2) and
\* whose attachments are all accepted never holds more than
\* (Sx-2)(Sy-2)(Sz-2) accepted attachments, eventually makes an accepted
\* attachment on a face site and stops with BoundaryHit, and then writes the
\* final snapshot.
C17_FaceWithinInteriorProduct ==
  GrowthStartClaimed =>
    /\ [](AcceptedAttachments <= InteriorProduct(cfg.grid))
    /\ <>(AttachmentRejected \/ FaceHit)
    /\ [](FaceHit => <>EndedOnBoundary)

\* C17 amended: on a non-periodic lattice of more than one site, a growth run
\* from the centre cell with only attachments scheduled and every attachment
\* accepted never holds more accepted attachments than the number of sites on
\* no face ((Sx-2)(Sy-2)(Sz-2) when every dimension is at least 3) or 1 when
\* there is no such site, eventually makes an accepted attachment on a face
\* site and stops with BoundaryHit when StepLim allows that many steps, and
\* then writes the final snapshot after the loop.
C17_FaceWithinGrowthBound ==
  GrowthStartAmended =>
    /\ [](AcceptedAttachments <= GrowthBound(cfg.grid))
    /\ <>(AttachmentRejected \/ FaceHit)
    /\ [](FaceHit => <>EndedOnBoundary)

\* on the 5x3x3 bar both interior neighbours of the centre were attached before
\* the third accepted attachment hit a face, and the run has ended
C17_Witness ==
  /\ cfg.grid.nx = 5 /\ cfg.mode = 11 /\ EndedOnBoundary
  /\ AcceptedAttachments = GrowthBound(cfg.grid)
  /\ sim.step_id = 3

\* the direction that faces dir: 0/1, 2/3, 4/5
Opposite(dir) == IF dir % 2 = 0 THEN dir + 1 ELSE dir - 1

\* C18: the neighbour table of every lattice is symmetric: if neibs[a][dir] = b
\* and b is not NONE then neibs[b][opposite(dir)] = a.
C18_NeibsSymmetric ==
  \A a \in DOMAIN neibs : \A dir \in 0..5 :
    LET b == neibs[a][dir + 1]
    IN b # NONE => neibs[b][Opposite(dir) + 1] = a

\* on the 3x1x2 lattice periodic in x only, Grid::new has linked site 4 =
\* (2,0,0) and site 0 across the x seam, and left the z-1 entry of site 0 NONE
C18_Witness ==
  /\ call.fn = "new"
  /\ cfg.grid = Grid(3, 1, 2, TRUE, FALSE, FALSE)
  /\ neibs[4][2] = 0 /\ neibs[0][1] = 4
  /\ neibs[0][5] = NONE

\* the six offsets in the order x-1, x+1, y-1, y+1, z-1, z+1
Offsets ==
  << <<-1, 0, 0>>, <<1, 0, 0>>, <<0, -1, 0>>, <<0, 1, 0>>, <<0, 0, -1>>, <<0, 0, 1>> >>

\* the Euclidean remainder of c by dim: the r in [0, dim) with c = q*dim + r
Wrapped(c, dim) == CHOOSE r \in 0..(dim - 1) : \E q \in -1..1 : c = q * dim + r

\* a coordinate in range, wrapped on a periodic axis, or missing
AxisCoord(c, dim, periodic) ==
  IF c \in 0..(dim - 1) THEN c ELSE IF periodic THEN Wrapped(c, dim) ELSE NONE

NeibByOffset(g, x, y, z, o) ==
  LET xo == AxisCoord(x + o[1], g.nx, g.px)
      yo == AxisCoord(y + o[2], g.ny, g.py)
      zo == AxisCoord(z + o[3], g.nz, g.pz)
  IN IF NONE \in {xo, yo, zo} THEN NONE ELSE zo + yo * g.nz + xo * g.nz * g.ny

\* C19: for every site with coordinates (x,y,z), the row of the neighbour table
\* holds the neighbours at x-1, x+1, y-1, y+1, z-1, z+1 in that order; an entry
\* is the linear index of the offset coordinate when it lies in [0, dim), of
\* its Euclidean remainder when it lies outside on a periodic axis, and NONE
\* when it lies outside on a non-periodic axis.
C19_NeibsRowByOffset ==
  call.fn # "alloc" =>
    \A x \in 0..(cfg.grid.nx - 1), y \in 0..(cfg.grid.ny - 1), z \in 0..(cfg.grid.nz - 1) :
      \A k \in 1..6 :
        neibs[z + y * cfg.grid.nz + x * cfg.grid.nz * cfg.grid.ny][k]
          = NeibByOffset(cfg.grid, x, y, z, Offsets[k])

\* on the 3x2x1 lattice periodic in x and z, the row of site 0 built by
\* Grid::new: x-1 wraps to (2,0,0) = 4, x+1 is (1,0,0) = 2, y-1 is missing,
\* y+1 is (0,1,0) = 1, z-1 and z+1 wrap to the site itself
C19_Witness ==
  /\ call.fn = "new"
  /\ cfg.grid = Grid(3, 2, 1, TRUE, FALSE, TRUE)
  /\ neibs[0] = <<4, 2, NONE, 1, 0, 0>>

\* the in-range coordinates of a lattice
Coords(g) == [x : 0..(g.nx - 1), y : 0..(g.ny - 1), z : 0..(g.nz - 1)]

\* C20: xyz_to_idx computes z + y*nz + x*nz*ny, maps the in-range coordinates
\* one to one onto [0, N), and idx_to_xyz is its inverse on both sides.
C20_LinearIndexBijection ==
  LET g == cfg.grid
  IN /\ call.fn = "xyz_to_idx" =>
          /\ call.idx = call.xyz.z + call.xyz.y * g.nz + call.xyz.x * g.nz * g.ny
          /\ call.idx \in 0..(g.nx * g.ny * g.nz - 1)
          /\ idx_to_xyz(g, call.idx) = call.xyz
     /\ call.fn = "idx_to_xyz" =>
          /\ call.xyz \in Coords(g)
          /\ xyz_to_idx(g, call.xyz.x, call.xyz.y, call.xyz.z) = call.idx
     /\ call.fn = "new" =>
          /\ {xyz_to_idx(g, c.x, c.y, c.z) : c \in Coords(g)} = 0..(g.nx * g.ny * g.nz - 1)
          /\ \A c1, c2 \in Coords(g) :
               xyz_to_idx(g, c1.x, c1.y, c1.z) = xyz_to_idx(g, c2.x, c2.y, c2.z) => c1 = c2

\* on a 2x3x2 lattice xyz_to_idx(1, 2, 1) has returned 1 + 2*2 + 1*2*3 = 11
C20_Witness ==
  /\ call.fn = "xyz_to_idx"
  /\ cfg.grid.nx = 2 /\ cfg.grid.ny = 3 /\ cfg.grid.nz = 2
  /\ call.xyz = [x |-> 1, y |-> 2, z |-> 1]
  /\ call.idx = 11

\* C21: an add of a kind on a site already tagged that kind, and a remove of a
\* kind on a site not tagged that kind (untagged or tagged the other kind),
\* leave the whole Frontier as it was: both vectors, both size counters, every
\* tag and every reverse-map entry.
C21_RedundantCallIsNoOp ==
  /\ (call.fn = "tpa_add" /\ call.pre.idxg_to_type[call.idx] = 2) => front = call.pre
  /\ (call.fn = "tpb_add" /\ call.pre.idxg_to_type[call.idx] = 3) => front = call.pre
  /\ (call.fn = "tpa_rem" /\ call.pre.idxg_to_type[call.idx] # 2) => front = call.pre
  /\ (call.fn = "tpb_rem" /\ call.pre.idxg_to_type[call.idx] # 3) => front = call.pre

\* tpa_rem was called on a member of tpbs while tpas held another site
C21_Witness ==
  /\ call.fn = "tpa_rem"
  /\ call.pre.idxg_to_type[call.idx] = 3
  /\ call.pre.tpas_size = 1 /\ call.pre.tpbs_size = 1
  /\ call.crossed = 0
  /\ front = call.pre

\* a site with no tag that neither vector holds
InNeitherSet(f, idxg) ==
  /\ f.idxg_to_type[idxg] = 0
  /\ \A k \in 1..Len(f.tpas) : f.tpas[k] # idxg
  /\ \A k \in 1..Len(f.tpbs) : f.tpbs[k] # idxg

\* the remove that has just undone an add on a site that was in neither set
UndoneAdd ==
  /\ call.fn \in {"tpa_rem", "tpb_rem"}
  /\ call.undo
  /\ InNeitherSet(call.base, call.idx)

C23_RebuildGivesInterface ==
  call.fn = "rebuild_front" =>
    /\ CrystalAdj(front) =
         {i \in Sites(cfg.grid) :
            /\ grid_states[i] = 1
            /\ \E k \in 1..6 : neibs[i][k] # NONE /\ grid_states[neibs[i][k]] = 0}
    /\ GasAdj(front) =
         {i \in Sites(cfg.grid) :
            /\ grid_states[i] = 0
            /\ \E k \in 1..6 : neibs[i][k] # NONE /\ grid_states[neibs[i][k]] = 1}
    /\ Len(front.tpas) = Cardinality(GasAdj(front))
    /\ Len(front.tpbs) = Cardinality(CrystalAdj(front))
    /\ front.tpas_size = Len(front.tpas) /\ front.tpbs_size = Len(front.tpbs)
    /\ call.idx = Cardinality({i \in Sites(cfg.grid) : grid_states[i] = 1})

\* on the cube with faces, the array with crystal at sites 0 and 7 was
\* rebuilt: both crystal sites and their six gas neighbours are stored, 2 is
\* returned
C23_Witness ==
  /\ call.fn = "rebuild_front"
  /\ cfg.grid = Grid(2, 2, 2, FALSE, FALSE, FALSE)
  /\ grid_states = [i \in 0..7 |-> IF i \in {0, 7} THEN 1 ELSE 0]
  /\ front.tpbs = <<0, 7>>
  /\ front.tpas_size = 6
  /\ call.idx = 2

\* the program has gone past the validation of its configuration
PastValidation == call.fn \in {"validate", "Grid::new", "run_calculations", "run_simulation"}

\* C24: in both programs, a configuration that fails a range check of
\* Settings::validate (Sx, Sy or Sz equal to 0, T <= 0, AddFrom < 1,
\* RemFrom < 1, a DirPrefix that is empty once trimmed) makes setup abort:
\* the lattice is never built and the step loop is never entered.
C24_InvalidConfigAborts ==
  (PastValidation /\ validate(cfg) # "ok") =>
    /\ neibs = <<>>
    /\ sim.pc \in {"off", "exit"}
    /\ run.pc \in {"off", "exit"}

\* C25: after the initialisation of the ensemble every replica's n_cryst is the
\* configured N0_cr when N0_cr is positive and the number of crystal sites of
\* its loaded state when N0_cr is zero or negative, and every replica's n_tot
\* is N_tot divided by the number of loaded replicas.
C25_InitialCrystalAndTotal ==
  (call.fn = "run_simulation" /\ run.pc = "loop" /\ run.step_id = 0) =>
    \A k \in 1..Len(items) :
      /\ items[k].simlog.n_cryst =
           IF cfg.n0_cr > 0 THEN cfg.n0_cr ELSE UNIT * CrystalCount(items[k].state)
      /\ items[k].simlog.n_tot * Len(items) = cfg.n_tot

\* the second run has taken the step the first run took
BothStepped == call.fn = "second" /\ RunState # call.pre

IdleRun == sim.pc # "off" /\ cfg.mode = 11 /\ cfg.add_i = 0 /\ cfg.rem_i = 0

\* C27: in mode 1.1 with AddI = RemI = 0 no step changes the phase array or the
\* Frontier, no step ends the run on a boundary hit, an exhausted frontier or a
\* panic, and the run is done only when StepLim steps have been executed, so
\* the final state written is the state written before the first step.
C27_IdleRunKeepsState ==
  [][IdleRun =>
       /\ grid_states' = grid_states
       /\ front' = front
       /\ sim'.stalled = "no"
       /\ sim'.pc \notin {"panic", "post"}
       /\ sim'.step_id \in {sim.step_id, sim.step_id + 1}
       /\ sim'.pc = "done" => /\ sim'.step_id = cfg.step_lim
                              /\ sim'.states_written = sim.states_written + 1]_vars

\* an idle run is done, from a state with crystal and gas sites
C27_Witness ==
  /\ IdleRun
  /\ sim.pc = "done"
  /\ sim.step_id = cfg.step_lim
  /\ sim.states_written >= 2
  /\ front.tpas_size > 0
  /\ front.tpbs_size > 0

\* the seed run of the claim: the driving force is larger than E_isol
SeedRun ==
  /\ cfg \in SeedConfigs
  /\ cfg.dg > SumSeq(cfg.e2)
  /\ sim.pc # "off"

MeltStep ==
  /\ cfg \in MeltConfigs
  /\ sim.pc \in {"loop", "add", "rem", "bal", "tail"}
  /\ \A i \in Sites(cfg.grid) : grid_states[i] = 1 => ~OnFace(neibs, i)

\* every ballistic step removes one crystal site, no step ends on a boundary
\* hit or a panic, the loop is left on the empty frontier exactly by the step
\* that removes the last crystal site, and the run is done only that way
MeltsAway ==
  /\ sim.pc = "bal" => CrystalCount(grid_states') = CrystalCount(grid_states) - 1
  /\ sim.pc # "bal" => grid_states' = grid_states
  /\ sim'.pc # "panic"
  /\ sim'.stalled # "boundary"
  /\ sim'.stalled = "front" <=> (sim.pc = "bal" /\ CrystalCount(grid_states') = 0)
  /\ sim'.stalled = "front" => front'.tpbs_size = 0
  /\ sim'.pc = "done" => sim'.stalled = "front"

\* C29 as stated: every melting run whose crystal touches no non-periodic face
\* loses one crystal site per step and ends with frontier exhaustion at the
\* step that removes the last crystal site, never with a boundary hit.
C29_MeltsAwayFromAny == [][MeltStep => MeltsAway]_vars

\* C29, for initial states with at least one gas site: the same.
C29_MeltsAway ==
  [][(MeltStep /\ \E i \in Sites(cfg.grid) : grid_states[i] = 0) => MeltsAway]_vars

\* a melting run that began with several crystal sites has ended on the empty
\* frontier, at the step that equals the number of sites removed
C29_Witness ==
  /\ cfg \in MeltConfigs
  /\ sim.pc = "done"
  /\ sim.stalled = "front"
  /\ sim.step_id >= 3
  /\ CrystalCount(grid_states) = 0
  /\ front.tpbs_size = 0

\* C30: in each of the six modes run_simulation leaves the global step loop
\* only after StepLim steps or when no replica is alive, and every replica
\* still alive has then been stepped in the last global step.
C30_EveryModeRunsLoop ==
  (run.pc = "done" /\ cfg.mode \in {11, 12, 13, 21, 22, 23}) =>
    \/ Len(items) = 0
    \/ /\ run.step_id = cfg.step_lim
       /\ \A k \in 1..Len(items) : items[k].simlog.mk_step = cfg.step_lim

\* run_simulation has returned after the loop ran in order: at most StepLim
\* global steps; left with no replica alive only by the aggregation of the last
\* global step begun, which stored that step in the ensemble's mk_step and
\* added one log point to the initial one and the periodic ones; left with
\* replicas only at StepLim, all of them alive
EndedInOrder ==
  /\ run.pc = "done"
  /\ run.step_id <= cfg.step_lim
  /\ IF Len(items) = 0
       THEN /\ simlog.mk_step = run.step_id
            /\ simlog.log_points = 2 + (run.step_id - 1) \div cfg.write_i
       ELSE /\ run.step_id = cfg.step_lim
            /\ \A k \in 1..Len(items) : items[k].is_alive

\* run_simulation is over: it has returned, or a panic has aborted the process
RunOver == EndedInOrder \/ run.pc = "panic"

\* C31: run_simulation always terminates; the global loop runs at most StepLim
\* global steps and stops at the first global step after which no replica is
\* alive, with that step stored in the ensemble's mk_step and one ensemble log
\* point added, and no global step begins once every replica is retired.
C31_LoopTerminates == <>RunOver

\* the loop was left at step 1 of 2 because no replica was alive, and
\* run_simulation returned
C31_Witness ==
  /\ EndedInOrder
  /\ Len(items) = 0
  /\ Len(run.finalized) = 2
  /\ run.step_id = 1
  /\ run.step_id < cfg.step_lim

\* the positions of a kernel call: the three sub-events and the return
InKernel == run.pc \in {"add", "rem", "bal", "ret"}

\* the replica being stepped, after the step
CurNext == items'[run.item_lid]

\* a step of a kernel call: the sub-event evaluated is the one of the position,
\* the positions follow each other in the order attachment, detachment,
\* ballistic, return; a sub-event is passed over only when the replica has been
\* marked dead, and then the kernel is at its return; the return of a dead
\* replica evaluates no sub-event, leaves its phase array, Frontier and n_cryst
\* alone and writes one state, the final one of the ensemble
KernelStep ==
  /\ ev'.kind # "none" => ev'.kind = run.pc
  /\ run.pc = "add" => run'.pc \in {"rem", "ret", "panic"}
  /\ run.pc = "rem" => run'.pc \in {"bal", "ret", "panic"}
  /\ run.pc = "bal" => run'.pc \in {"ret", "panic"}
  /\ run.pc # "ret" =>
       /\ run'.item_lid = run.item_lid
       /\ Cur.is_alive
       /\ ~CurNext.is_alive => run'.pc = "ret"
       /\ (run'.pc = "ret" /\ run.pc # "bal") => ~CurNext.is_alive
  /\ (run.pc = "ret" /\ ~Cur.is_alive) =>
       /\ ev' = NoEvent
       /\ CurNext.state = Cur.state
       /\ CurNext.front = Cur.front
       /\ CurNext.simlog.n_cryst = Cur.simlog.n_cryst
       /\ CurNext.simlog.mk_step = Cur.simlog.mk_step
       /\ CurNext.snapshots = Cur.snapshots + 1

\* C32: within one kernel call the sub-events are evaluated in the order
\* attachment, thermal detachment, ballistic detachment, and once a sub-event
\* has marked the replica dead the kernel returns at once: no later sub-event
\* is evaluated, nothing is drawn, no state changes, and the kernel does not
\* write the periodic snapshot of the step.
C32_KernelOrderAndEarlyReturn == [][InKernel => KernelStep]_vars

\* an accepted attachment has marked the replica dead on a write step on which
\* a detachment was scheduled too, and the kernel is at its return
C32_Witness ==
  /\ run.pc = "ret"
  /\ ~Cur.is_alive
  /\ ev.kind = "add"
  /\ ev.accepted
  /\ is_rem_step
  /\ is_write_step

\* the flag the schedule (interval, from) gives step s
Scheduled(s, interval, from) == interval > 0 /\ s >= from /\ s % interval = 0

\* C33: at every step s >= 1 the add flag is true iff AddI > 0, s >= AddFrom and
\* s mod AddI = 0, the rem flag likewise with RemI and RemFrom, and with an
\* interval of 0 the flag is false without a remainder by zero.
C33_FlagsFollowSchedule ==
  call.fn = "flags" =>
    /\ call.is_add_step =
         IF Scheduled(call.step_id, cfg.add_i, cfg.add_from) THEN "true" ELSE "false"
    /\ call.is_rem_step =
         IF Scheduled(call.step_id, cfg.rem_i, cfg.rem_from) THEN "true" ELSE "false"
    /\ cfg.add_i = 0 => call.is_add_step = "false"
    /\ cfg.rem_i = 0 => call.is_rem_step = "false"

\* the flags of a step on which attachments are scheduled, with RemI = 0 and the
\* step past RemFrom
C33_Witness ==
  /\ call.fn = "flags"
  /\ call.is_add_step = "true"
  /\ call.is_rem_step = "false"
  /\ cfg.rem_i = 0
  /\ cfg.add_i = 2
  /\ cfg.add_from = 3
  /\ call.step_id = 4
  /\ call.step_id >= cfg.rem_from

\* the step refuses a sub-event of a reservoir kernel on a negative concentration
RefusedStep ==
  /\ Reservoir
  /\ sim.pc \in {"add", "rem", "bal"}
  /\ sim_state'.concentration_negative_counter =
       sim_state.concentration_negative_counter + 1

\* C34: in the single-replica reservoir modes a negative-concentration
\* rejection rejects only its sub-event: the loop body goes on to the next
\* sub-event of the step and, after the last, to the end of the body, where
\* mk_step is set and the state of a write step is recorded.
C34_RefusalKeepsStep ==
  [][RefusedStep =>
       /\ sim'.step_id = sim.step_id
       /\ sim'.pc = IF sim.pc = "add" THEN "rem"
                    ELSE IF sim.pc = "rem" THEN "bal" ELSE "tail"]_vars

\* the number of distinct values that one coordinate takes over the members
\* of CrystalAdj
AxisCount(f, axis) ==
  Cardinality({v \in 0..(cfg.grid.nx + cfg.grid.ny + cfg.grid.nz) :
                 \E k \in 1..f.tpbs_size :
                   LET p == idx_to_xyz(cfg.grid, f.tpbs[k])
                   IN v = (IF axis = 1 THEN p.x ELSE IF axis = 2 THEN p.y ELSE p.z)})

\* replica k has just been measured: a snapshot of it was written in the step
Measured(k) ==
  /\ k <= Len(items')
  /\ items'[k].item_gid = items[k].item_gid
  /\ items'[k].snapshots = items[k].snapshots + 1

\* C35: every measurement of a replica stores 0, 0, 0 when its CrystalAdj is
\* empty and otherwise the numbers of distinct x, y and z coordinates of the
\* members of CrystalAdj, each at least 1, whatever was stored before
C35_SizesAreExtents ==
  [][\A k \in 1..Len(items) :
       Measured(k) =>
         LET f == items'[k].front
             sl == items'[k].simlog
         IN /\ sl.cryst_sx = AxisCount(f, 1)
            /\ sl.cryst_sy = AxisCount(f, 2)
            /\ sl.cryst_sz = AxisCount(f, 3)
            /\ f.tpbs_size = 0 => sl.cryst_sx = 0 /\ sl.cryst_sy = 0 /\ sl.cryst_sz = 0
            /\ f.tpbs_size > 0 => sl.cryst_sx >= 1 /\ sl.cryst_sy >= 1 /\ sl.cryst_sz >= 1]_vars

\* a replica measured again after its crystal has gone: the extents are back
\* to 0 on a replica whose last crystal site has been detached
C35_Witness ==
  \E k \in 1..Len(items) :
    /\ items[k].snapshots >= 2
    /\ items[k].front.tpbs_size = 0
    /\ items[k].simlog.cryst_sx = 0
    /\ CrystalCount(items[k].state) = 0
    /\ items[k].simlog.tot_denergy # 0

\* C36: in every step of the ensemble run a replica's n_cryst changes by the
\* change of the number of crystal sites of its phase array, so that n_cryst
\* minus its initial value is the crystal count minus the initial crystal count
C36_CrystalCountLockstep ==
  [][\A k \in 1..Len(items) : \A j \in 1..Len(items') :
       items'[j].item_gid = items[k].item_gid =>
         items'[j].simlog.n_cryst - items[k].simlog.n_cryst =
           UNIT * (CrystalCount(items'[j].state) - CrystalCount(items[k].state))]_vars

\* a replica initialised with the configured N0_cr, which is not the crystal
\* count of its line, after an accepted sub-event
C36_Witness ==
  \E k \in 1..Len(items) :
    /\ cfg.n0_cr > 0
    /\ run.step_id >= 1
    /\ items[k].simlog.n_cryst # cfg.n0_cr
    /\ items[k].simlog.n_cryst # UNIT * CrystalCount(items[k].state)

\* no site of the lattice is its own neighbour
NoSelfNeighbour == \A i \in DOMAIN neibs : \A d \in 1..6 : neibs[i][d] # i

\* twice S: over every crystal site and each of its six directions whose
\* neighbour is NONE or gas, the quantum of the direction's axis
SurfaceTwice(state) ==
  LET open(i, d) == neibs[i][d] = NONE \/ state[neibs[i][d]] = 0
      term(i) == SumSeq([d \in 1..6 |->
                   IF state[i] = 1 /\ open(i, d) THEN cfg.e2[(d + 1) \div 2] ELSE 0])
  IN SumSeq([n \in 1..Cardinality(DOMAIN state) |-> term(n - 1)])

\* C37: on a lattice with no self-neighbour every step changes a replica's
\* tot_denergy by S(new phase array) - S(old phase array), so that after any
\* sequence of accepted sub-events tot_denergy is S(current) - S(initial)
C37_EnergyIsStateFunction ==
  [][NoSelfNeighbour =>
       \A k \in 1..Len(items) : \A j \in 1..Len(items') :
         items'[j].item_gid = items[k].item_gid =>
           2 * (items'[j].simlog.tot_denergy - items[k].simlog.tot_denergy) =
             SurfaceTwice(items'[j].state) - SurfaceTwice(items[k].state)]_vars

\* a replica that holds a crystal and whose second step has just detached a
\* site, with tot_denergy at 0 as before its first sub-event
C37_Witness ==
  /\ NoSelfNeighbour
  /\ run.step_id >= 2
  /\ ev.kind \in {"rem", "bal"} /\ ev.accepted
  /\ \E k \in 1..Len(items) :
       /\ items[k].item_gid = ev.item_gid
       /\ items[k].simlog.tot_denergy = 0
       /\ CrystalCount(items[k].state) >= 1

\* every member of CrystalAdj has a gas neighbour inside the lattice
MembersTouchGas ==
  \A k \in 1..items[1].front.tpbs_size :
    \E d \in 1..6 :
      LET n == neibs[items[1].front.tpbs[k]][d]
      IN n # NONE /\ items[1].state[n] = 0

\* C38: with positive quanta the base 1 - surf_en_change / eisol of the
\* ballistic probability is never negative for a sampled site, and it is
\* strictly positive when every member of CrystalAdj has a gas neighbour
\* inside the lattice
C38_BaseSign ==
  call.fn = "prob" =>
    /\ call.base.n >= 0 /\ call.base.d > 0
    /\ MembersTouchGas => call.base.n > 0

\* the quanta are whole numbers of one unit and their sum is a value of the
\* format below the first gap: no sum of the kernel is rounded
ExactSums == cfg.e2[1] + cfg.e2[2] + cfg.e2[3] < Pow2(MantBits)

\* C38 (amended): the base is never negative for a sampled site, and it is
\* strictly positive when every member of CrystalAdj has a gas neighbour
\* inside the lattice and the sums of the quanta are exact
C38_BaseSignExactSums ==
  call.fn = "prob" =>
    /\ call.base.n >= 0 /\ call.base.d > 0
    /\ (MembersTouchGas /\ ExactSums) => call.base.n > 0

\* a sampled site with gas along x only and two crystal neighbours along y
\* and along z, with exact sums: the base is Ex2 / E_isol
C38_Witness ==
  /\ call.fn = "prob"
  /\ MembersTouchGas /\ ExactSums
  /\ call.sm = <<0, 2, 2>>
  /\ cfg.e2 = <<1, 2, 2>>
  /\ call.base = Frac(2, 5)

\* C39: the single-replica run that loaded a line starts from that line: the
\* first state written and the array the frontier was rebuilt from are the
\* loaded phase vector
C39_StartsFromLoadedLine ==
  call.fn = "run_calculations" =>
    /\ call.first_state = call.line
    /\ grid_states = call.line

====
